---------------------------- MODULE Spec2Model ----------------------------
(***************************************************************************)
(* Parse-scoring engine of l95-parsing: the set-comparison scorer          *)
(* (task/eval/score.py), the constituency span extractor and cross-bracket *)
(* counter (task/eval/constituency.py) and the dependency-relation         *)
(* evaluation with its label filter (task/eval/dep_rel.py).                *)
(*                                                                         *)
(* Each component is a state machine of its own (SpecScore, SpecTree,      *)
(* SpecCross, SpecLabel, SpecDep): Init draws the inputs, the actions      *)
(* apply the code.  The variables of the other components stay idle.       *)
(***************************************************************************)
EXTENDS Integers, Sequences, FiniteSets, TLC

VARIABLES
    \* Set-comparison scorer: the two argument sets, the position of the
    \* call and what the call produced.
    pred_set, gold_set, score_pc, score_ret,
    \* Label filter: the two argument strings of the predicate, the position
    \* of the call and the boolean it returned.
    filter_label, deprel, label_pc, label_ret,
    \* eval_dep_rel: the gold table (gold), the parser's table (result), the filter_label and
    \* save_predictions arguments, the files written, the position in the
    \* function, its local sets and what the call produced.
    dep_gold, dep_result, dep_filter, save_predictions, dumped, dep_pc,
    pred_labelled_heads, gold_labelled_heads, pred_unlabelled_heads,
    gold_unlabelled_heads, pred_labels, gold_labels, dep_ret,
    \* Constituency extraction: the trees read so far from the bracketed text
    \* (the last ones still without a parent), the position of the call, its
    \* labelled argument, the set extract_constituents returned and the pair
    \* extract_all_constituents returned.
    stack, tree_pc, tree_labelled, constituents, big_set, all_consts,
    \* cross_count: the two span sets of a sentence, the position of the
    \* call, the count over the labelled spans and the count over their
    \* unlabelled (start, end) forms.
    gold_spans, pred_spans, cross_pc, crosses, crosses_unlabelled,
    \* df_to_heads called on its own: the table, the labelled and filter_label
    \* arguments, the position of the call, the rows df.itertuples() handed
    \* out and what the call produced.
    heads_df, heads_labelled, heads_filter, heads_pc, rows_read, heads_ret,
    \* DependencyParser: the pretagged and df_format fields, the type of the
    \* argument of the call, the position of the call, the calls made of the
    \* pipeline and of the table converter, and what the call produced.
    parser_pretagged, df_format, parser_input, parser_pc, pipe_calls, converter_calls, parser_ret,
    \* eval_const: the gold parses (gold), the parser's parses (result), whether
    \* save_predictions is given, the files written, the position in the
    \* function, its local sets and count, and what the call produced.
    const_gold, const_result, const_save, const_dumped, const_pc,
    pred_labelled, pred_constituents, pred_unlabelled, gold_labelled,
    gold_constituents, gold_unlabelled, cc, const_ret,
    \* The two revisions of EvalScore.from_sets: the two argument sets, the
    \* position of the calls, what the current revision produced and what the
    \* earlier revision produced.
    rev_pred, rev_gold, rev_pc, rev_new, rev_old,
    \* The evaluate dep-rel command: its --pretagged flag, the type of the input
    \* the parser is given, the position of the command and what it reported.
    cli_pretagged, cli_input, cli_pc, cli_out,
    \* The visualise constituency command: the parses of the file, the value of
    \* --indices, the indices made of it, the position of the loop, what was
    \* pretty-printed and what was emitted as LaTeX (index and parse), the
    \* position of the command and how it ended.
    vis_parses, vis_value, vis_indices, vis_pos, vis_pretty, vis_latex, vis_pc, vis_out,
    \* flatten_children: the tree given, the position of the call and the tree
    \* returned.
    flat_tree, flat_pc, flat_out

scoreVars == <<pred_set, gold_set, score_pc, score_ret>>

labelVars == <<filter_label, deprel, label_pc, label_ret>>

depLocals == <<pred_labelled_heads, gold_labelled_heads, pred_unlabelled_heads,
               gold_unlabelled_heads, pred_labels, gold_labels>>

depVars == <<dep_gold, dep_result, dep_filter, save_predictions, dumped, dep_pc,
             depLocals, dep_ret>>

treeVars == <<stack, tree_pc, tree_labelled, constituents, big_set, all_consts>>

crossVars == <<gold_spans, pred_spans, cross_pc, crosses, crosses_unlabelled>>

headsVars == <<heads_df, heads_labelled, heads_filter, heads_pc, rows_read, heads_ret>>

parserVars == <<parser_pretagged, df_format, parser_input, parser_pc, pipe_calls, converter_calls, parser_ret>>

constLocals == <<pred_labelled, pred_constituents, pred_unlabelled, gold_labelled,
                 gold_constituents, gold_unlabelled, cc>>

constVars == <<const_gold, const_result, const_save, const_dumped, const_pc,
               constLocals, const_ret>>

revisionsVars == <<rev_pred, rev_gold, rev_pc, rev_new, rev_old>>

cliVars == <<cli_pretagged, cli_input, cli_pc, cli_out>>

visVars == <<vis_parses, vis_value, vis_indices, vis_pos, vis_pretty, vis_latex, vis_pc, vis_out>>

flattenVars == <<flat_tree, flat_pc, flat_out>>

vars == <<scoreVars, labelVars, depVars, treeVars, crossVars, headsVars, parserVars, constVars, revisionsVars, cliVars, visVars, flattenVars>>

\* The variables of the other components, which a component leaves alone.
notScore == <<labelVars, depVars, treeVars, crossVars, headsVars, parserVars, constVars, revisionsVars, cliVars, visVars, flattenVars>>

notLabel == <<scoreVars, depVars, treeVars, crossVars, headsVars, parserVars, constVars, revisionsVars, cliVars, visVars, flattenVars>>

notDep == <<scoreVars, labelVars, treeVars, crossVars, headsVars, parserVars, constVars, revisionsVars, cliVars, visVars, flattenVars>>

notTree == <<scoreVars, labelVars, depVars, crossVars, headsVars, parserVars, constVars, revisionsVars, cliVars, visVars, flattenVars>>

notCross == <<scoreVars, labelVars, depVars, treeVars, headsVars, parserVars, constVars, revisionsVars, cliVars, visVars, flattenVars>>

notHeads == <<scoreVars, labelVars, depVars, treeVars, crossVars, parserVars, constVars, revisionsVars, cliVars, visVars, flattenVars>>

notParser == <<scoreVars, labelVars, depVars, treeVars, crossVars, headsVars, constVars, revisionsVars, cliVars, visVars, flattenVars>>

notConst == <<scoreVars, labelVars, depVars, treeVars, crossVars, headsVars, parserVars, revisionsVars, cliVars, visVars, flattenVars>>

notRevisions == <<scoreVars, labelVars, depVars, treeVars, crossVars, headsVars, parserVars, constVars, cliVars, visVars, flattenVars>>

notCli == <<scoreVars, labelVars, depVars, treeVars, crossVars, headsVars, parserVars, constVars, revisionsVars, visVars, flattenVars>>

notVis == <<scoreVars, labelVars, depVars, treeVars, crossVars, headsVars, parserVars, constVars, revisionsVars, cliVars, flattenVars>>

notFlatten == <<scoreVars, labelVars, depVars, treeVars, crossVars, headsVars, parserVars, constVars, revisionsVars, cliVars, visVars>>

(***************************************************************************)
(* Python values.                                                          *)
(*   A float that is the quotient of two ints is kept as the exact         *)
(*   fraction [num, den] in lowest terms (den > 0).                        *)
(*   A call ends in [raised |-> "None", value |-> <<...>>] or in           *)
(*   [raised |-> <exception>, value |-> <<>>].                             *)
(***************************************************************************)
RECURSIVE Gcd(_, _)
Gcd(a, b) == IF b = 0 THEN a ELSE Gcd(b, a % b)

Frac(n, d) ==
    LET g == Gcd(n, d)
    IN  IF n = 0 THEN [num |-> 0, den |-> 1] ELSE [num |-> n \div g, den |-> d \div g]

Zero == [num |-> 0, den |-> 1]

FAdd(x, y) == Frac(x.num * y.den + y.num * x.den, x.den * y.den)

FMul(x, y) == Frac(x.num * y.num, x.den * y.den)

FScale(k, x) == Frac(k * x.num, x.den)

FPositive(x) == x.num > 0

Returned(v) == [raised |-> "None", value |-> v]

Raised(e) == [raised |-> e, value |-> <<>>]

\* int / int: ZeroDivisionError on a zero divisor.
TrueDiv(n, d) == IF d = 0 THEN Raised("ZeroDivisionError") ELSE Returned(<<Frac(n, d)>>)

\* float / float
FloatDiv(x, y) ==
    IF y.num = 0 THEN Raised("ZeroDivisionError")
    ELSE Returned(<<Frac(x.num * y.den, x.den * y.num)>>)

NoCall == Raised("NoCall")

\* The ValueErrors of the evaluation code, by message.
SizeMismatchError == "ValueError: Both sets must be the same length to compute accuracy correctly."

EmptyFilterResultError == "ValueError: Label not found in either predicted or gold set."

ConfigurationError == "ValueError: Cannot set labelled to false and filter by label."

(***************************************************************************)
(* task/eval/score.py                                                      *)
(***************************************************************************)
\* EvalScore.from_sets without the guards on the divisors.
EvalScore_from_sets_unguarded(ps, gs) ==
    LET correct == Cardinality(ps \cap gs)
        pred == Cardinality(ps)
        gold == Cardinality(gs)
        p == TrueDiv(correct, pred)
        r == TrueDiv(correct, gold)
    IN  IF p.raised # "None" THEN p
        ELSE IF r.raised # "None" THEN r
        ELSE LET f == FloatDiv(FScale(2, FMul(p.value[1], r.value[1])),
                               FAdd(p.value[1], r.value[1]))
             IN  IF f.raised # "None" THEN f
                 ELSE Returned(<<p.value[1], r.value[1], f.value[1]>>)

EvalScore_from_sets(ps, gs) ==
    LET correct == Cardinality(ps \cap gs)
        pred == Cardinality(ps)
        gold == Cardinality(gs)
        p == IF pred # 0 THEN TrueDiv(correct, pred) ELSE Returned(<<Zero>>)
        r == IF gold # 0 THEN TrueDiv(correct, gold) ELSE Returned(<<Zero>>)
    IN  IF p.raised # "None" THEN p
        ELSE IF r.raised # "None" THEN r
        ELSE LET f == IF FPositive(FAdd(p.value[1], r.value[1]))
                      THEN FloatDiv(FScale(2, FMul(p.value[1], r.value[1])),
                                    FAdd(p.value[1], r.value[1]))
                      ELSE Returned(<<Zero>>)
             IN  IF f.raised # "None" THEN f
                 ELSE Returned(<<p.value[1], r.value[1], f.value[1]>>)

\* EvalScore.from_sets of the earlier revision (src/task/eval/score.py and
\* src/task/eval.py): gold is the size of pred_set and no divisor is guarded.
EvalScore_from_sets_old(ps, gs) ==
    LET correct == Cardinality(ps \cap gs)
        pred == Cardinality(ps)
        gold == Cardinality(ps)
        p == TrueDiv(correct, pred)
        r == TrueDiv(correct, gold)
    IN  IF p.raised # "None" THEN p
        ELSE IF r.raised # "None" THEN r
        ELSE LET f == FloatDiv(FScale(2, FMul(p.value[1], r.value[1])),
                               FAdd(p.value[1], r.value[1]))
             IN  IF f.raised # "None" THEN f
                 ELSE Returned(<<p.value[1], r.value[1], f.value[1]>>)

\* Accuracy.from_sets scoring the overlap without comparing the two sizes.
Accuracy_from_sets_unchecked(ps, gs) ==
    TrueDiv(Cardinality(ps \cap gs), Cardinality(ps))

Accuracy_from_sets(ps, gs) ==
    LET correct == Cardinality(ps \cap gs)
        pred == Cardinality(ps)
        gold == Cardinality(gs)
    IN  IF pred # gold THEN Raised(SizeMismatchError)
        ELSE TrueDiv(correct, pred)

(***************************************************************************)
(* task/eval/dep_rel.py                                                    *)
(* A str is the sequence of its characters.  An optional str argument is   *)
(* [isNone |-> TRUE, s |-> <<>>] for None and [isNone |-> FALSE, s |-> s]  *)
(* for a str.                                                              *)
(***************************************************************************)
None == [isNone |-> TRUE, s |-> <<>>]

Str(s) == [isNone |-> FALSE, s |-> s]

\* A test for "is not None" in the place of the truth value.
Truthy_is_not_none(o) == ~o.isNone

\* Truth value of an optional str: None and "" are false.
Truthy(o) == ~o.isNone /\ o.s # <<>>

\* str.lower(), one character
LowerChar(c) == IF c = "N" THEN "n" ELSE IF c = "O" THEN "o" ELSE c

\* A lower() that leaves every character as it is.
lower_unchanged(s) == s

\* str.lower()
lower(s) == [i \in 1..Len(s) |-> LowerChar(s[i])]

\* ":" in s
HasColon(s) == \E i \in 1..Len(s) : s[i] = ":"

\* s.split(":")[0]
RECURSIVE SplitMain(_)
SplitMain(s) ==
    IF s = <<>> \/ Head(s) = ":" THEN <<>>
    ELSE <<Head(s)>> \o SplitMain(Tail(s))

\* The predicate comparing the strings as given, without lower-casing them.
deprel_label_filter_pred_cased(f, d) ==
    IF HasColon(f) THEN f = d ELSE f = SplitMain(d)

\* The predicate comparing only the main category whatever the filter is.
deprel_label_filter_pred_coarse(f, d) ==
    SplitMain(lower(f)) = SplitMain(lower(d))

deprel_label_filter_pred(f, d) ==
    LET fl == lower(f)
        dl == lower(d)
    IN  IF HasColon(fl) THEN fl = dl
        ELSE fl = SplitMain(dl)

\* df_to_heads without the check of its arguments.
df_to_heads_unguarded(df, labelled, fl) ==
    LET rows == IF Truthy(fl)
                THEN {row \in df : deprel_label_filter_pred(fl.s, row.deprel)}
                ELSE df
    IN  Returned(<<{IF labelled
                    THEN <<row.sent_id, row.word_id, lower(row.deprel), row.head>>
                    ELSE <<row.sent_id, row.word_id, row.head>> : row \in rows}>>)

\* A table is the set of its rows [sent_id, word_id, deprel, head]; the
\* column word is read by none of the functions below.
df_to_heads(df, labelled, fl) ==
    IF ~labelled /\ Truthy(fl) THEN Raised(ConfigurationError)
    ELSE LET rows == IF Truthy(fl)
                     THEN {row \in df : deprel_label_filter_pred(fl.s, row.deprel)}
                     ELSE df
         IN  Returned(<<{IF labelled
                         THEN <<row.sent_id, row.word_id, lower(row.deprel), row.head>>
                         ELSE <<row.sent_id, row.word_id, row.head>> : row \in rows}>>)

\* The number of rows df.itertuples() hands out during a call of df_to_heads:
\* none when the call raises before its loop, else every row of the table.
RowsIterated(df, labelled, fl) ==
    IF df_to_heads(df, labelled, fl).raised # "None" THEN 0
    ELSE Cardinality(df)

df_to_labels(df) ==
    {<<row.sent_id, row.word_id, lower(row.deprel)>> : row \in df}

\* df_get_label keeping every row, whatever its label.
df_get_label_unfiltered(df, label) ==
    {<<row.sent_id, row.word_id, lower(row.deprel)>> : row \in df}

df_get_label(df, label) ==
    LET l == lower(label)
    IN  {<<row.sent_id, row.word_id, lower(row.deprel)>> :
            row \in {r \in df : deprel_label_filter_pred(l, r.deprel)}}

\* The first exception among the outcomes in evaluation order, else the
\* record built from their values.
RECURSIVE FirstRaised(_)
FirstRaised(outs) ==
    IF outs = <<>> THEN None
    ELSE IF Head(outs).raised # "None" THEN Str(Head(outs).raised)
    ELSE FirstRaised(Tail(outs))

\* A constructor that fills in the fields computed without an error and
\* leaves the others empty.
Construct_partial(kind, label, outs) ==
    Returned(<<kind, label>> \o [i \in 1..Len(outs) |-> outs[i].value])

\* namedtuple constructor over argument outcomes
Construct(kind, label, outs) ==
    LET e == FirstRaised(outs)
    IN  IF ~e.isNone THEN Raised(e.s)
        ELSE Returned(<<kind, label>> \o [i \in 1..Len(outs) |-> outs[i].value])

\* The unfiltered record with the labelled and the unlabelled arcs in each
\* other's place.
UnfilteredScore_swapped(plh, glh, puh, guh, pl, gl) ==
    Construct("DependencyRelationScore", <<>>,
              <<Accuracy_from_sets(puh, guh),
                Accuracy_from_sets(plh, glh),
                Accuracy_from_sets(pl, gl)>>)

\* eval_dep_rel, no filter: the three accuracies.
UnfilteredScore(plh, glh, puh, guh, pl, gl) ==
    Construct("DependencyRelationScore", <<>>,
              <<Accuracy_from_sets(plh, glh),
                Accuracy_from_sets(puh, guh),
                Accuracy_from_sets(pl, gl)>>)

\* The filtered branch raising as soon as one side matches nothing.
FilteredScore_either(fl, plh, glh, pl, gl) ==
    IF plh = {} \/ glh = {}
    THEN Raised(EmptyFilterResultError)
    ELSE Construct("SpecificDepRelScore", fl,
                   <<EvalScore_from_sets(plh, glh), EvalScore_from_sets(pl, gl)>>)

\* eval_dep_rel, with a filter: the error when both sides match nothing, else
\* the two precision/recall/F1 triples.
FilteredScore(fl, plh, glh, pl, gl) ==
    IF Cardinality(plh) = 0 /\ Cardinality(glh) = 0
    THEN Raised(EmptyFilterResultError)
    ELSE Construct("SpecificDepRelScore", fl,
                   <<EvalScore_from_sets(plh, glh), EvalScore_from_sets(pl, gl)>>)

(***************************************************************************)
(* task/predict.py                                                         *)
(***************************************************************************)
PretaggedStringError == "Input cannot be of type string for pretagged parser"

UntaggedDocumentError == "Input cannot be of type Document for untagged parser"

\* The checks of DependencyParser.__call__ with the second one left out.
InputError_pretagged_only(pretagged, input_type) ==
    IF pretagged /\ input_type = "str" THEN Str(PretaggedStringError)
    ELSE None

\* The checks at the head of DependencyParser.__call__: the message of the
\* ValueError raised, or None.
InputError(pretagged, input_type) ==
    IF pretagged /\ input_type = "str" THEN Str(PretaggedStringError)
    ELSE IF ~pretagged /\ input_type = "Document" THEN Str(UntaggedDocumentError)
    ELSE None

(***************************************************************************)
(* main.py                                                                 *)
(***************************************************************************)
BAD_FILTER_LABEL_MSG == "--filter-label '{}' not found in either hypothesis or reference parse."

\* isinstance(e, ValueError) for the exceptions of the evaluation code.
IsValueError(e) ==
    e \in {SizeMismatchError, EmptyFilterResultError, ConfigurationError,
           PretaggedStringError, UntaggedDocumentError}

NoReport == [kind |-> "none", message |-> "", label |-> None]

\* What cli_eval_dep_rel does with the outcome of eval_dep_rel: the record is
\* printed, a ValueError becomes the usage error on --filter-label with the
\* label filled in, any other exception passes.
Report(ret, label) ==
    IF ret.raised = "None"
    THEN [kind |-> "pretty_print", message |-> "", label |-> None]
    ELSE IF IsValueError(ret.raised)
    THEN [kind |-> "BadOptionUsage", message |-> BAD_FILTER_LABEL_MSG, label |-> label]
    ELSE [kind |-> "exception", message |-> ret.raised, label |-> None]

\* tuple(sorted(rng))
RECURSIVE SortedTuple(_)
SortedTuple(S) ==
    IF S = {} THEN <<>>
    ELSE LET least == CHOOSE x \in S : \A y \in S : x <= y
         IN  <<least>> \o SortedTuple(S \ {least})

\* RangeType.convert: the sorted tuple of the numbers of all parts; a part
\* lo-hi stands for range(lo, hi + 1).
RangeType_convert(parts) ==
    SortedTuple(UNION {parts[k].lo .. parts[k].hi : k \in 1..Len(parts)})

\* list[index] of Python on a list kept as a sequence: a negative index
\* counts from the end, an index out of range raises IndexError.
ListGet(list, index) ==
    IF 0 <= index /\ index < Len(list) THEN Returned(<<list[index + 1]>>)
    ELSE IF -Len(list) <= index /\ index < 0
    THEN Returned(<<list[Len(list) + index + 1]>>)
    ELSE Raised("IndexError")

(***************************************************************************)
(* task/eval/constituency.py                                               *)
(* A child of a tree is a word (a str: isLeaf) or a tree; both are records *)
(* [isLeaf, label, kids], a word carrying its text as label and no kids.   *)
(***************************************************************************)
Leaf(w) == [isLeaf |-> TRUE, label |-> w, kids |-> <<>>]

Tree(l, children) == [isLeaf |-> FALSE, label |-> l, kids |-> children]

Max(a, b) == IF a >= b THEN a ELSE b

RECURSIVE height(_)
RECURSIVE MaxChildHeight(_)
\* The loop of Tree.height: a word counts 1, a subtree its own height.
MaxChildHeight(children) ==
    IF children = <<>> THEN 0
    ELSE Max(IF Head(children).isLeaf THEN 1 ELSE height(Head(children)),
             MaxChildHeight(Tail(children)))

\* Tree.height()
height(tree) == 1 + MaxChildHeight(tree.kids)

RECURSIVE leaves(_)
RECURSIVE LeavesOfChildren(_)
LeavesOfChildren(children) ==
    IF children = <<>> THEN <<>>
    ELSE (IF Head(children).isLeaf THEN <<Head(children).label>>
          ELSE leaves(Head(children)))
         \o LeavesOfChildren(Tail(children))

\* Tree.leaves()
leaves(tree) == LeavesOfChildren(tree.kids)

RECURSIVE flatten_children(_)
RECURSIVE FlattenFrom(_, _)
\* The while loop of flatten_children from child i on (i counted from 1):
\* the list new_tree it builds.
FlattenFrom(children, i) ==
    IF i > Len(children) THEN <<>>
    ELSE IF children[i].isLeaf
    THEN <<children[i]>> \o FlattenFrom(children, i + 1)
    ELSE LET left == children[i]
         IN  IF /\ i + 2 <= Len(children)
                /\ children[i + 1].isLeaf
                /\ ~children[i + 2].isLeaf
                /\ lower(children[i + 1].label) \in {<<"a", "n", "d">>, <<"o", "r">>}
                /\ left.label = children[i + 2].label
             THEN <<Tree(left.label,
                         <<left.kids[1], children[i + 1], children[i + 2].kids[1]>>)>>
                  \o FlattenFrom(children, i + 3)
             ELSE <<flatten_children(left)>> \o FlattenFrom(children, i + 1)

\* flatten_children
flatten_children(tree) ==
    IF tree.isLeaf THEN tree
    ELSE IF Len(tree.kids) < 3
    THEN Tree(tree.label, [k \in 1..Len(tree.kids) |-> flatten_children(tree.kids[k])])
    ELSE IF \A k \in 1..Len(tree.kids) : tree.kids[k].isLeaf THEN tree
    ELSE LET new_tree == FlattenFrom(tree.kids, 1)
         IN  IF /\ Len(new_tree) = 1
                /\ ~new_tree[1].isLeaf
                /\ new_tree[1].label = tree.label
             THEN new_tree[1]
             ELSE Tree(tree.label, new_tree)

\* The span tuple with the index of the last leaf as its end.
Span_inclusive_end(tree, start_index, labelled) ==
    IF labelled THEN <<start_index, start_index + Len(leaves(tree)) - 1, tree.label>>
    ELSE <<start_index, start_index + Len(leaves(tree)) - 1>>

\* The span tuple with an end one past the last leaf.
Span_end_past(tree, start_index, labelled) ==
    IF labelled THEN <<start_index, start_index + Len(leaves(tree)) + 1, tree.label>>
    ELSE <<start_index, start_index + Len(leaves(tree)) + 1>>

\* The span tuple of a tree starting at start_index.
Span(tree, start_index, labelled) ==
    IF labelled THEN <<start_index, start_index + Len(leaves(tree)), tree.label>>
    ELSE <<start_index, start_index + Len(leaves(tree))>>

RECURSIVE extract_constituents(_, _, _)
RECURSIVE ExtractChildren(_, _, _)
\* The loop over the children: a word is skipped, a subtree is extracted at
\* the running start_index, which then advances by the subtree's leaves.
ExtractChildren(children, start_index, labelled) ==
    IF children = <<>> THEN {}
    ELSE IF Head(children).isLeaf
         THEN ExtractChildren(Tail(children), start_index, labelled)
         ELSE extract_constituents(Head(children), start_index, labelled)
              \cup ExtractChildren(Tail(children),
                                   start_index + Len(leaves(Head(children))),
                                   labelled)

\* extract_constituents emitting a span for a tree of height 1 as well.
extract_constituents_any_height(tree, start_index, labelled) ==
    {Span(tree, start_index, labelled)}
        \cup ExtractChildren(tree.kids, start_index, labelled)

extract_constituents(tree, start_index, labelled) ==
    IF height(tree) > 1
    THEN {Span(tree, start_index, labelled)}
             \cup ExtractChildren(tree.kids, start_index, labelled)
    ELSE {}

\* The crossing test with non-strict comparisons.
Crossing_nonstrict(u, g) ==
    \/ (u[1] <= g[1] /\ u[2] >= g[1] /\ u[2] <= g[2])
    \/ (u[1] >= g[1] /\ u[1] <= g[2] /\ u[2] >= g[2])

\* The loop of extract_all_constituents with the start index running on
\* from one sentence to the next.
RECURSIVE ExtractAllFrom_running_index(_, _, _, _, _, _)
ExtractAllFrom_running_index(trees, sent_id, start_index, labelled, big, consts) ==
    IF sent_id > Len(trees) THEN <<big, consts>>
    ELSE LET found == extract_constituents(trees[sent_id], start_index, labelled)
         IN  ExtractAllFrom_running_index(trees, sent_id + 1,
                 start_index + Len(leaves(trees[sent_id])), labelled,
                 big \cup {<<sent_id>> \o tup : tup \in found},
                 Append(consts, found))

extract_all_constituents_running_index(trees, labelled) ==
    ExtractAllFrom_running_index(trees, 1, 0, labelled, {}, <<>>)

\* The loop of extract_all_constituents from sentence sent_id on, with the
\* big set and the list built so far.
RECURSIVE ExtractAllFrom(_, _, _, _, _)
ExtractAllFrom(trees, sent_id, labelled, big, consts) ==
    IF sent_id > Len(trees) THEN <<big, consts>>
    ELSE LET found == extract_constituents(trees[sent_id], 0, labelled)
         IN  ExtractAllFrom(trees, sent_id + 1, labelled,
                 big \cup {<<sent_id>> \o tup : tup \in found},
                 Append(consts, found))

\* extract_all_constituents: the pair (big_set, all_consts).
extract_all_constituents(trees, labelled) ==
    ExtractAllFrom(trees, 1, labelled, {}, <<>>)

\* The test of cross_count on a predicted span u and a gold span g.
Crossing(u, g) ==
    \/ (u[1] < g[1] /\ u[2] > g[1] /\ u[2] < g[2])
    \/ (u[1] > g[1] /\ u[1] < g[2] /\ u[2] > g[2])

\* The orders in which a set can be iterated.
RECURSIVE IterationOrders(_)
IterationOrders(S) ==
    IF S = {} THEN {<<>>}
    ELSE UNION {{<<x>> \o rest : rest \in IterationOrders(S \ {x})} : x \in S}

\* The inner loop counting every gold span that u crosses (no break).
RECURSIVE ScanGold_no_break(_, _)
ScanGold_no_break(u, gold_seq) ==
    IF gold_seq = <<>> THEN 0
    ELSE (IF Crossing(u, Head(gold_seq)) THEN 1 ELSE 0)
         + ScanGold_no_break(u, Tail(gold_seq))

\* The inner loop leaving at the first gold span, crossed or not.
ScanGold_first_only(u, gold_seq) ==
    IF gold_seq = <<>> THEN 0
    ELSE IF Crossing(u, Head(gold_seq)) THEN 1
    ELSE 0

\* The inner loop: 1 at the first gold span that u crosses (break), else 0.
RECURSIVE ScanGold(_, _)
ScanGold(u, gold_seq) ==
    IF gold_seq = <<>> THEN 0
    ELSE IF Crossing(u, Head(gold_seq)) THEN 1
    ELSE ScanGold(u, Tail(gold_seq))

\* The outer loop over the unmatched spans.
RECURSIVE CountCrosses(_, _)
CountCrosses(unmatched_seq, gold_seq) ==
    IF unmatched_seq = <<>> THEN 0
    ELSE ScanGold(Head(unmatched_seq), gold_seq)
         + CountCrosses(Tail(unmatched_seq), gold_seq)

\* cross_count scanning every predicted span, matched in gold or not.
cross_count_all_pred(gold, pred) ==
    {CountCrosses(u_seq, g_seq) :
        u_seq \in IterationOrders(pred),
        g_seq \in IterationOrders(gold)}

\* cross_count: the values it can return, one for each order in which the two
\* sets are iterated.
cross_count(gold, pred) ==
    LET unmatched_spans == pred \ (gold \cap pred)
    IN  {CountCrosses(u_seq, g_seq) :
            u_seq \in IterationOrders(unmatched_spans),
            g_seq \in IterationOrders(gold)}

\* The sum of eval_const taken over every gold sentence against every
\* predicted sentence.
RECURSIVE AllPairsCrossCounts(_, _)
AllPairsCrossCounts(gs, ps) ==
    IF gs = <<>> THEN {0}
    ELSE LET RECURSIVE Row(_)
             Row(qs) == IF qs = <<>> THEN {0}
                        ELSE {a + b : a \in cross_count(Head(gs), Head(qs)),
                                      b \in Row(Tail(qs))}
         IN  {a + b : a \in Row(ps), b \in AllPairsCrossCounts(Tail(gs), ps)}

\* sum(cross_count(g, p) for g, p in zip(gold_constituents,
\* pred_constituents)): the values the sum can take; zip stops at the end of
\* the shorter list.
RECURSIVE ZipCrossCounts(_, _)
ZipCrossCounts(gs, ps) ==
    IF gs = <<>> \/ ps = <<>> THEN {0}
    ELSE {a + b : a \in cross_count(Head(gs), Head(ps)),
                  b \in ZipCrossCounts(Tail(gs), Tail(ps))}

\* The record of eval_const with the two scores in each other's place.
ConstituencyScore_swapped(pl, gl, pu, gu, count) ==
    Construct("ConstituencyScore", <<>>,
              <<EvalScore_from_sets(pu, gu),
                EvalScore_from_sets(pl, gl),
                Returned(<<count>>)>>)

\* The record eval_const returns.
ConstituencyScore(pl, gl, pu, gu, count) ==
    Construct("ConstituencyScore", <<>>,
              <<EvalScore_from_sets(pl, gl),
                EvalScore_from_sets(pu, gu),
                Returned(<<count>>)>>)

(***************************************************************************)
(* The scorer as a state machine: the caller holds two sets of atoms and   *)
(* calls one of the two constructors.                                      *)
(***************************************************************************)
MaxAtom == 3

Atoms == 1..MaxAtom

RECURSIVE SubsetsUpTo(_, _)
\* The subsets of S with at most k elements.
SubsetsUpTo(S, k) ==
    IF k = 0 THEN {{}}
    ELSE LET smaller == SubsetsUpTo(S, k - 1)
         IN  smaller \cup {T \cup {x} : T \in smaller, x \in S}

IdleScore ==
    /\ pred_set = {}
    /\ gold_set = {}
    /\ score_pc = "idle"
    /\ score_ret = NoCall

IdleLabel ==
    /\ filter_label = <<>>
    /\ deprel = <<>>
    /\ label_pc = "idle"
    /\ label_ret = FALSE

IdleDep ==
    /\ dep_gold = {}
    /\ dep_result = {}
    /\ dep_filter = None
    /\ save_predictions = FALSE
    /\ dumped = 0
    /\ dep_pc = "idle"
    /\ pred_labelled_heads = {}
    /\ gold_labelled_heads = {}
    /\ pred_unlabelled_heads = {}
    /\ gold_unlabelled_heads = {}
    /\ pred_labels = {}
    /\ gold_labels = {}
    /\ dep_ret = NoCall

IdleTree ==
    /\ stack = <<>>
    /\ tree_pc = "idle"
    /\ tree_labelled = TRUE
    /\ constituents = {}
    /\ big_set = {}
    /\ all_consts = <<>>

IdleCross ==
    /\ gold_spans = {}
    /\ pred_spans = {}
    /\ cross_pc = "idle"
    /\ crosses = 0
    /\ crosses_unlabelled = 0

IdleHeads ==
    /\ heads_df = {}
    /\ heads_labelled = TRUE
    /\ heads_filter = None
    /\ heads_pc = "idle"
    /\ rows_read = 0
    /\ heads_ret = NoCall

IdleParser ==
    /\ parser_pretagged = FALSE
    /\ df_format = "deprel"
    /\ parser_input = "str"
    /\ parser_pc = "idle"
    /\ pipe_calls = 0
    /\ converter_calls = 0
    /\ parser_ret = NoCall

IdleConst ==
    /\ const_gold = <<>>
    /\ const_result = <<>>
    /\ const_save = FALSE
    /\ const_dumped = 0
    /\ const_pc = "idle"
    /\ pred_labelled = {}
    /\ pred_constituents = <<>>
    /\ pred_unlabelled = {}
    /\ gold_labelled = {}
    /\ gold_constituents = <<>>
    /\ gold_unlabelled = {}
    /\ cc = 0
    /\ const_ret = NoCall

IdleRevisions ==
    /\ rev_pred = {}
    /\ rev_gold = {}
    /\ rev_pc = "idle"
    /\ rev_new = NoCall
    /\ rev_old = NoCall

IdleCli ==
    /\ cli_pretagged = FALSE
    /\ cli_input = "str"
    /\ cli_pc = "idle"
    /\ cli_out = NoReport

IdleVis ==
    /\ vis_parses = <<>>
    /\ vis_value = <<>>
    /\ vis_indices = <<>>
    /\ vis_pos = 0
    /\ vis_pretty = <<>>
    /\ vis_latex = <<>>
    /\ vis_pc = "idle"
    /\ vis_out = NoCall

IdleFlatten ==
    /\ flat_tree = <<>>
    /\ flat_pc = "idle"
    /\ flat_out = <<>>

InitScore ==
    /\ pred_set \in SUBSET Atoms
    /\ gold_set \in SUBSET Atoms
    /\ score_pc = "start"
    /\ score_ret = NoCall
    /\ IdleLabel
    /\ IdleDep
    /\ IdleTree
    /\ IdleCross
    /\ IdleHeads
    /\ IdleParser
    /\ IdleConst
    /\ IdleRevisions
    /\ IdleCli
    /\ IdleVis
    /\ IdleFlatten

CallEvalScore ==
    /\ score_pc = "start"
    /\ score_ret' = EvalScore_from_sets(pred_set, gold_set)
    /\ score_pc' = "EvalScore"
    /\ UNCHANGED <<pred_set, gold_set, notScore>>

CallAccuracy ==
    /\ score_pc = "start"
    /\ score_ret' = Accuracy_from_sets(pred_set, gold_set)
    /\ score_pc' = "Accuracy"
    /\ UNCHANGED <<pred_set, gold_set, notScore>>

NextScore == CallEvalScore \/ CallAccuracy

SpecScore == InitScore /\ [][NextScore]_vars

(***************************************************************************)
(* The label filter as a state machine: the predicate applied to a filter  *)
(* string and a candidate label over the characters n, N, o and ':'.       *)
(***************************************************************************)
MaxLabelLen == 3

Chars == {"n", "N", "o", ":"}

Strings == UNION {[1..k -> Chars] : k \in 0..MaxLabelLen}

InitLabel ==
    /\ filter_label \in Strings
    /\ deprel \in Strings
    /\ label_pc = "start"
    /\ label_ret = FALSE
    /\ IdleScore
    /\ IdleDep
    /\ IdleTree
    /\ IdleCross
    /\ IdleHeads
    /\ IdleParser
    /\ IdleConst
    /\ IdleRevisions
    /\ IdleCli
    /\ IdleVis
    /\ IdleFlatten

CallFilterPred ==
    /\ label_pc = "start"
    /\ label_ret' = deprel_label_filter_pred(filter_label, deprel)
    /\ label_pc' = "done"
    /\ UNCHANGED <<filter_label, deprel, notLabel>>

NextLabel == CallFilterPred

SpecLabel == InitLabel /\ [][NextLabel]_vars

(***************************************************************************)
(* eval_dep_rel as a state machine.  The gold table is the one the gold    *)
(* file holds (at least one row: load_dep_rel reads no empty file), the    *)
(* parser's table is any table; a table may hold several rows of one       *)
(* (sent_id, word_id), as a gold file may.                                 *)
(***************************************************************************)
MaxRows == 2

DepLabels == {<<"n">>, <<"N", ":", "o">>}

DepRows == [sent_id : {1}, word_id : {1, 2}, deprel : DepLabels, head : {0, 1}]

DepTables == SubsetsUpTo(DepRows, MaxRows)

DepFilters == {None, Str(<<>>), Str(<<"n">>), Str(<<"n", ":", "o">>), Str(<<"o">>)}

InitDep ==
    /\ dep_gold \in DepTables \ {{}}
    /\ dep_result = {}
    /\ dep_filter \in DepFilters
    /\ save_predictions \in BOOLEAN
    /\ dumped = 0
    /\ dep_pc = "parse"
    /\ pred_labelled_heads = {}
    /\ gold_labelled_heads = {}
    /\ pred_unlabelled_heads = {}
    /\ gold_unlabelled_heads = {}
    /\ pred_labels = {}
    /\ gold_labels = {}
    /\ dep_ret = NoCall
    /\ IdleScore
    /\ IdleLabel
    /\ IdleTree
    /\ IdleCross
    /\ IdleHeads
    /\ IdleParser
    /\ IdleConst
    /\ IdleRevisions
    /\ IdleCli
    /\ IdleVis
    /\ IdleFlatten

\* result = parser(sentences)
EvalDepRel_Parse ==
    /\ dep_pc = "parse"
    /\ dep_result' \in DepTables
    /\ dep_pc' = "save"
    /\ UNCHANGED <<dep_gold, dep_filter, save_predictions, dumped, depLocals,
                   dep_ret, notDep>>

\* The saving step writing the file whether or not a target is given.
EvalDepRel_Save_unconditional ==
    /\ dep_pc = "save"
    /\ dumped' = dumped + 1
    /\ dep_pc' = "evaluate"
    /\ UNCHANGED <<dep_gold, dep_result, dep_filter, save_predictions, depLocals,
                   dep_ret, notDep>>

\* if save_predictions is not None: dump_dep_rel(result, save_predictions)
EvalDepRel_Save ==
    /\ dep_pc = "save"
    /\ dumped' = IF save_predictions THEN dumped + 1 ELSE dumped
    /\ dep_pc' = "evaluate"
    /\ UNCHANGED <<dep_gold, dep_result, dep_filter, save_predictions, depLocals,
                   dep_ret, notDep>>

\* The extraction of the sets and the scoring, to the return or the raise.
EvalDepRel_Evaluate ==
    /\ dep_pc = "evaluate"
    /\ dep_pc' = "done"
    /\ LET plh == df_to_heads(dep_result, TRUE, dep_filter)
           puh == df_to_heads(dep_result, FALSE, None)
           glh == df_to_heads(dep_gold, TRUE, dep_filter)
           guh == df_to_heads(dep_gold, FALSE, None)
           e == FirstRaised(<<plh, puh, glh, guh>>)
       IN  IF ~e.isNone
           THEN /\ dep_ret' = Raised(e.s)
                /\ UNCHANGED depLocals
           ELSE /\ pred_labelled_heads' = plh.value[1]
                /\ pred_unlabelled_heads' = puh.value[1]
                /\ gold_labelled_heads' = glh.value[1]
                /\ gold_unlabelled_heads' = guh.value[1]
                /\ IF ~Truthy(dep_filter)
                   THEN /\ pred_labels' = df_to_labels(dep_result)
                        /\ gold_labels' = df_to_labels(dep_gold)
                        /\ dep_ret' = UnfilteredScore(plh.value[1], glh.value[1],
                                                      puh.value[1], guh.value[1],
                                                      df_to_labels(dep_result),
                                                      df_to_labels(dep_gold))
                   ELSE /\ pred_labels' = df_get_label(dep_result, dep_filter.s)
                        /\ gold_labels' = df_get_label(dep_gold, dep_filter.s)
                        /\ dep_ret' = FilteredScore(dep_filter.s,
                                                    plh.value[1], glh.value[1],
                                                    df_get_label(dep_result, dep_filter.s),
                                                    df_get_label(dep_gold, dep_filter.s))
    /\ UNCHANGED <<dep_gold, dep_result, dep_filter, save_predictions, dumped,
                   notDep>>

NextDep == EvalDepRel_Parse \/ EvalDepRel_Save \/ EvalDepRel_Evaluate

SpecDep == InitDep /\ [][NextDep]_vars

(***************************************************************************)
(* eval_dep_rel on tables whose labels differ in letter case only ("n",    *)
(* "N") or altogether ("o"), called without a filter label or with the     *)
(* empty one and without a save target.                                    *)
(***************************************************************************)
CaseLabels == {<<"n">>, <<"N">>, <<"o">>}

CaseRows == [sent_id : {1}, word_id : {1, 2}, deprel : CaseLabels, head : {0, 1}]

CaseTables == SubsetsUpTo(CaseRows, MaxRows)

InitDepCase ==
    /\ dep_gold \in CaseTables \ {{}}
    /\ dep_result = {}
    /\ dep_filter \in {None, Str(<<>>)}
    /\ save_predictions = FALSE
    /\ dumped = 0
    /\ dep_pc = "parse"
    /\ pred_labelled_heads = {}
    /\ gold_labelled_heads = {}
    /\ pred_unlabelled_heads = {}
    /\ gold_unlabelled_heads = {}
    /\ pred_labels = {}
    /\ gold_labels = {}
    /\ dep_ret = NoCall
    /\ IdleScore
    /\ IdleLabel
    /\ IdleTree
    /\ IdleCross
    /\ IdleHeads
    /\ IdleParser
    /\ IdleConst
    /\ IdleRevisions
    /\ IdleCli
    /\ IdleVis
    /\ IdleFlatten

\* result = parser(sentences)
EvalDepRel_ParseCase ==
    /\ dep_pc = "parse"
    /\ dep_result' \in CaseTables
    /\ dep_pc' = "save"
    /\ UNCHANGED <<dep_gold, dep_filter, save_predictions, dumped, depLocals,
                   dep_ret, notDep>>

NextDepCase == EvalDepRel_ParseCase \/ EvalDepRel_Save \/ EvalDepRel_Evaluate

SpecDepCase == InitDepCase /\ [][NextDepCase]_vars

(***************************************************************************)
(* extract_constituents as a state machine.  The tree is read from its     *)
(* bracketed text as Tree.fromstring reads it: a word is a new leaf, a     *)
(* closing bracket makes the last k nodes the children of a new tree.      *)
(* When a single tree is left, extract_constituents is called on it.       *)
(***************************************************************************)
MaxNodes == 5

TreeLabels == {"A", "B"}

RECURSIVE Nodes(_)
RECURSIVE NodesOfChildren(_)
NodesOfChildren(children) ==
    IF children = <<>> THEN 0
    ELSE Nodes(Head(children)) + NodesOfChildren(Tail(children))

\* The number of nodes (words and trees) of a tree.
Nodes(tree) == 1 + NodesOfChildren(tree.kids)

InitTree ==
    /\ stack = <<>>
    /\ tree_pc = "read"
    /\ tree_labelled = TRUE
    /\ constituents = {}
    /\ big_set = {}
    /\ all_consts = <<>>
    /\ IdleScore
    /\ IdleLabel
    /\ IdleDep
    /\ IdleCross
    /\ IdleHeads
    /\ IdleParser
    /\ IdleConst
    /\ IdleRevisions
    /\ IdleCli
    /\ IdleVis
    /\ IdleFlatten

ReadWord ==
    /\ tree_pc = "read"
    /\ NodesOfChildren(stack) < MaxNodes
    /\ stack' = Append(stack, Leaf("w"))
    /\ UNCHANGED <<tree_pc, tree_labelled, constituents, big_set, all_consts, notTree>>

ReadTree ==
    /\ tree_pc = "read"
    /\ NodesOfChildren(stack) < MaxNodes
    /\ \E l \in TreeLabels, k \in 0..Len(stack) :
          stack' = Append(SubSeq(stack, 1, Len(stack) - k),
                          Tree(l, SubSeq(stack, Len(stack) - k + 1, Len(stack))))
    /\ UNCHANGED <<tree_pc, tree_labelled, constituents, big_set, all_consts, notTree>>

CallExtract ==
    /\ tree_pc = "read"
    /\ Len(stack) = 1
    /\ ~stack[1].isLeaf
    /\ \E l \in BOOLEAN :
          /\ tree_labelled' = l
          /\ constituents' = extract_constituents(stack[1], 0, l)
    /\ tree_pc' = "done"
    /\ UNCHANGED <<stack, big_set, all_consts, notTree>>

\* extract_all_constituents applied to the trees read so far, as the list of
\* the parses of a corpus.
CallExtractAll ==
    /\ tree_pc = "read"
    /\ Len(stack) >= 1
    /\ \A i \in 1..Len(stack) : ~stack[i].isLeaf
    /\ \E l \in BOOLEAN :
          /\ tree_labelled' = l
          /\ big_set' = extract_all_constituents(stack, l)[1]
          /\ all_consts' = extract_all_constituents(stack, l)[2]
    /\ tree_pc' = "done_all"
    /\ UNCHANGED <<stack, constituents, notTree>>

NextTree == ReadWord \/ ReadTree \/ CallExtract \/ CallExtractAll

SpecTree == InitTree /\ [][NextTree]_vars

(***************************************************************************)
(* cross_count as a state machine: two sets of labelled spans over the     *)
(* positions of one sentence; the function is applied to them and to       *)
(* their unlabelled forms.                                                 *)
(***************************************************************************)
MaxSpans == 3

SentenceLength == 4

LabelledSpans ==
    {x \in (0..SentenceLength) \X (0..SentenceLength) \X TreeLabels : x[1] < x[2]}

Unlabelled(spans) == {<<x[1], x[2]>> : x \in spans}

InitCross ==
    /\ gold_spans \in SubsetsUpTo(LabelledSpans, MaxSpans)
    /\ pred_spans \in SubsetsUpTo(LabelledSpans, MaxSpans - Cardinality(gold_spans))
                        \cup (IF Cardinality(gold_spans) < MaxSpans THEN {gold_spans} ELSE {})
    /\ cross_pc = "start"
    /\ crosses = 0
    /\ crosses_unlabelled = 0
    /\ IdleScore
    /\ IdleLabel
    /\ IdleDep
    /\ IdleTree
    /\ IdleHeads
    /\ IdleParser
    /\ IdleConst
    /\ IdleRevisions
    /\ IdleCli
    /\ IdleVis
    /\ IdleFlatten

CallCrossCount ==
    /\ cross_pc = "start"
    /\ crosses' \in cross_count(gold_spans, pred_spans)
    /\ crosses_unlabelled' \in cross_count(Unlabelled(gold_spans), Unlabelled(pred_spans))
    /\ cross_pc' = "done"
    /\ UNCHANGED <<gold_spans, pred_spans, notCross>>

NextCross == CallCrossCount

SpecCross == InitCross /\ [][NextCross]_vars

(***************************************************************************)
(* df_to_heads as a state machine: a table, the labelled flag and the      *)
(* filter label are chosen, then the function is called once.              *)
(***************************************************************************)
InitHeads ==
    /\ heads_df \in DepTables
    /\ heads_labelled \in BOOLEAN
    /\ heads_filter \in DepFilters
    /\ heads_pc = "start"
    /\ rows_read = 0
    /\ heads_ret = NoCall
    /\ IdleScore
    /\ IdleLabel
    /\ IdleDep
    /\ IdleTree
    /\ IdleCross
    /\ IdleParser
    /\ IdleConst
    /\ IdleRevisions
    /\ IdleCli
    /\ IdleVis
    /\ IdleFlatten

CallDfToHeads ==
    /\ heads_pc = "start"
    /\ heads_ret' = df_to_heads(heads_df, heads_labelled, heads_filter)
    /\ rows_read' = RowsIterated(heads_df, heads_labelled, heads_filter)
    /\ heads_pc' = "done"
    /\ UNCHANGED <<heads_df, heads_labelled, heads_filter, notHeads>>

NextHeads == CallDfToHeads

SpecHeads == InitHeads /\ [][NextHeads]_vars

(***************************************************************************)
(* DependencyParser as a state machine: a parser is constructed pretagged  *)
(* or not and with a table format, then called once on a str or on a       *)
(* Document.  The Stanza pipeline is outside the program: the table made   *)
(* from its document is any table.                                         *)
(***************************************************************************)
DataFrameFormat == {"conllu", "deprel"}

InputTypes == {"str", "Document"}

InitParser ==
    /\ parser_pretagged \in BOOLEAN
    /\ df_format \in DataFrameFormat
    /\ parser_input \in InputTypes
    /\ parser_pc = "constructed"
    /\ pipe_calls = 0
    /\ converter_calls = 0
    /\ parser_ret = NoCall
    /\ IdleScore
    /\ IdleLabel
    /\ IdleDep
    /\ IdleTree
    /\ IdleCross
    /\ IdleHeads
    /\ IdleConst
    /\ IdleRevisions
    /\ IdleCli
    /\ IdleVis
    /\ IdleFlatten

\* DependencyParser.__call__
CallParser ==
    /\ parser_pc = "constructed"
    /\ parser_pc' = "done"
    /\ LET e == InputError(parser_pretagged, parser_input)
       IN  IF ~e.isNone
           THEN /\ parser_ret' = Raised(e.s)
                /\ UNCHANGED <<pipe_calls, converter_calls>>
           ELSE /\ pipe_calls' = pipe_calls + 1
                /\ converter_calls' = converter_calls + 1
                /\ \E table \in DepTables : parser_ret' = Returned(<<table>>)
    /\ UNCHANGED <<parser_pretagged, df_format, parser_input, notParser>>

NextParser == CallParser

SpecParser == InitParser /\ [][NextParser]_vars

(***************************************************************************)
(* eval_const as a state machine.  The gold parses are loaded (at least    *)
(* one: an empty file does not load); the parser, which is outside the     *)
(* program, returns any list of trees, of any length.  The trees are       *)
(* bracketings of a three-word sentence and one unary chain.               *)
(***************************************************************************)
MaxSentences == 2

W == Leaf("w")

CorpusTrees ==
    {Tree("A", <<Tree("A", <<W, W>>), Tree("B", <<W>>)>>),
     Tree("A", <<Tree("B", <<W>>), Tree("A", <<W, W>>)>>),
     Tree("B", <<W, W, W>>),
     Tree("A", <<W, Tree("B", <<W, W>>)>>),
     Tree("A", <<Tree("B", <<W>>)>>)}

Corpora(min) == UNION {[1..n -> CorpusTrees] : n \in min..MaxSentences}

InitConst ==
    /\ const_gold \in Corpora(1)
    /\ const_result = <<>>
    /\ const_save \in BOOLEAN
    /\ const_dumped = 0
    /\ const_pc = "parse"
    /\ pred_labelled = {}
    /\ pred_constituents = <<>>
    /\ pred_unlabelled = {}
    /\ gold_labelled = {}
    /\ gold_constituents = <<>>
    /\ gold_unlabelled = {}
    /\ cc = 0
    /\ const_ret = NoCall
    /\ IdleScore
    /\ IdleLabel
    /\ IdleDep
    /\ IdleTree
    /\ IdleCross
    /\ IdleHeads
    /\ IdleParser
    /\ IdleRevisions
    /\ IdleCli
    /\ IdleVis
    /\ IdleFlatten

\* result = parser(sentences)
EvalConst_Parse ==
    /\ const_pc = "parse"
    /\ const_result' \in Corpora(0)
    /\ const_pc' = "save"
    /\ UNCHANGED <<const_gold, const_save, const_dumped, constLocals, const_ret,
                   notConst>>

\* if save_predictions is not None: dump_constituency_parses(result, ...)
EvalConst_Save ==
    /\ const_pc = "save"
    /\ const_dumped' = IF const_save THEN const_dumped + 1 ELSE const_dumped
    /\ const_pc' = "evaluate"
    /\ UNCHANGED <<const_gold, const_result, const_save, constLocals, const_ret,
                   notConst>>

\* The extraction of the span sets and the scoring, to the return.
EvalConst_Evaluate ==
    /\ const_pc = "evaluate"
    /\ const_pc' = "done"
    /\ pred_labelled' = extract_all_constituents(const_result, TRUE)[1]
    /\ pred_constituents' = extract_all_constituents(const_result, TRUE)[2]
    /\ pred_unlabelled' = extract_all_constituents(const_result, FALSE)[1]
    /\ gold_labelled' = extract_all_constituents(const_gold, TRUE)[1]
    /\ gold_constituents' = extract_all_constituents(const_gold, TRUE)[2]
    /\ gold_unlabelled' = extract_all_constituents(const_gold, FALSE)[1]
    /\ cc' \in ZipCrossCounts(gold_constituents', pred_constituents')
    /\ const_ret' = ConstituencyScore(pred_labelled', gold_labelled',
                                      pred_unlabelled', gold_unlabelled', cc')
    /\ UNCHANGED <<const_gold, const_result, const_save, const_dumped, notConst>>

NextConst == EvalConst_Parse \/ EvalConst_Save \/ EvalConst_Evaluate

SpecConst == InitConst /\ [][NextConst]_vars

(***************************************************************************)
(* The two evaluation functions together: one of them runs.                *)
(***************************************************************************)
InitEval == InitDep \/ InitConst

NextEval == NextDep \/ NextConst

SpecEval == InitEval /\ [][NextEval]_vars

(***************************************************************************)
(* The two revisions of EvalScore.from_sets side by side: both are called  *)
(* on the same two sets of atoms.                                          *)
(***************************************************************************)
InitRevisions ==
    /\ rev_pred \in SUBSET Atoms
    /\ rev_gold \in SUBSET Atoms
    /\ rev_pc = "start"
    /\ rev_new = NoCall
    /\ rev_old = NoCall
    /\ IdleScore
    /\ IdleLabel
    /\ IdleDep
    /\ IdleTree
    /\ IdleCross
    /\ IdleHeads
    /\ IdleParser
    /\ IdleConst
    /\ IdleCli
    /\ IdleVis
    /\ IdleFlatten

CallBothRevisions ==
    /\ rev_pc = "start"
    /\ rev_new' = EvalScore_from_sets(rev_pred, rev_gold)
    /\ rev_old' = EvalScore_from_sets_old(rev_pred, rev_gold)
    /\ rev_pc' = "done"
    /\ UNCHANGED <<rev_pred, rev_gold, notRevisions>>

NextRevisions == CallBothRevisions

SpecRevisions == InitRevisions /\ [][NextRevisions]_vars

(***************************************************************************)
(* eval_dep_rel and df_to_heads together: one of them is called.           *)
(***************************************************************************)
InitDepHeads == InitDep \/ InitHeads

NextDepHeads == NextDep \/ NextHeads

SpecDepHeads == InitDepHeads /\ [][NextDepHeads]_vars

(***************************************************************************)
(* The evaluate dep-rel command as a state machine.  The command calls     *)
(* eval_dep_rel with its --pretagged flag and reports what comes back.     *)
(* The eval_dep_rel it calls takes the flag, builds its parser with it and *)
(* hands the parser a str or a Document; the rest of it is eval_dep_rel as *)
(* above, called without a save target.                                    *)
(***************************************************************************)
InitCli ==
    /\ cli_pretagged \in BOOLEAN
    /\ cli_input \in InputTypes
    /\ cli_pc = "called"
    /\ cli_out = NoReport
    /\ dep_gold \in DepTables \ {{}}
    /\ dep_result = {}
    /\ dep_filter \in DepFilters
    /\ save_predictions = FALSE
    /\ dumped = 0
    /\ dep_pc = "parse"
    /\ pred_labelled_heads = {}
    /\ gold_labelled_heads = {}
    /\ pred_unlabelled_heads = {}
    /\ gold_unlabelled_heads = {}
    /\ pred_labels = {}
    /\ gold_labels = {}
    /\ dep_ret = NoCall
    /\ IdleScore
    /\ IdleLabel
    /\ IdleTree
    /\ IdleCross
    /\ IdleHeads
    /\ IdleParser
    /\ IdleConst
    /\ IdleRevisions
    /\ IdleVis
    /\ IdleFlatten

\* parser = DependencyParser(..., pretagged=pretagged); result = parser(...)
EvalDepRel_ParsePretagged ==
    /\ cli_pc = "called"
    /\ dep_pc = "parse"
    /\ LET e == InputError(cli_pretagged, cli_input)
       IN  IF ~e.isNone
           THEN /\ dep_ret' = Raised(e.s)
                /\ dep_pc' = "done"
                /\ UNCHANGED dep_result
           ELSE /\ dep_result' \in DepTables
                /\ dep_pc' = "save"
                /\ UNCHANGED dep_ret
    /\ UNCHANGED <<dep_gold, dep_filter, save_predictions, dumped, depLocals,
                   notDep>>

\* try: res = eval_dep_rel(...) except ValueError: raise click.BadOptionUsage
\* ...; res.pretty_print()
CliReport ==
    /\ cli_pc = "called"
    /\ dep_pc = "done"
    /\ cli_out' = Report(dep_ret, dep_filter)
    /\ cli_pc' = "done"
    /\ UNCHANGED <<cli_pretagged, cli_input, notCli>>

NextCli ==
    EvalDepRel_ParsePretagged \/ EvalDepRel_Save \/ EvalDepRel_Evaluate \/ CliReport

SpecCli == InitCli /\ [][NextCli]_vars

(***************************************************************************)
(* The visualise constituency command as a state machine.  The file holds  *)
(* n parses; a parse is kept as the number of its sentence in the file.    *)
(* The --indices value is a list of parts lo-hi (a single number being     *)
(* lo-lo), which RangeType.convert turns into the tuple of indices; the    *)
(* command then runs its loop, one index at a step.                        *)
(***************************************************************************)
MaxParses == 3

MaxParts == 2

IndexParts == [lo : 1..(MaxParses + 1), hi : 1..(MaxParses + 1)]

IndexValues == UNION {[1..k -> IndexParts] : k \in 0..MaxParts}

InitVis ==
    /\ \E n \in 1..MaxParses : vis_parses = [k \in 1..n |-> k]
    /\ vis_value \in IndexValues
    /\ vis_indices = <<>>
    /\ vis_pos = 0
    /\ vis_pretty = <<>>
    /\ vis_latex = <<>>
    /\ vis_pc = "option"
    /\ vis_out = NoCall
    /\ IdleScore
    /\ IdleLabel
    /\ IdleDep
    /\ IdleTree
    /\ IdleCross
    /\ IdleHeads
    /\ IdleParser
    /\ IdleConst
    /\ IdleRevisions
    /\ IdleCli
    /\ IdleFlatten

\* RangeType.convert on the value of --indices
ConvertIndices ==
    /\ vis_pc = "option"
    /\ vis_indices' = RangeType_convert(vis_value)
    /\ vis_pc' = "loop"
    /\ UNCHANGED <<vis_parses, vis_value, vis_pos, vis_pretty, vis_latex, vis_out,
                   notVis>>

\* One pass of `for i in indices`: parses[i - 1].pretty_print(), then
\* tree_to_latex(parses[i]).
VisualiseSentence ==
    /\ vis_pc = "loop"
    /\ vis_pos < Len(vis_indices)
    /\ LET i == vis_indices[vis_pos + 1]
           shown == ListGet(vis_parses, i - 1)
           ltx == ListGet(vis_parses, i)
       IN  IF shown.raised # "None"
           THEN /\ vis_out' = shown
                /\ vis_pc' = "done"
                /\ UNCHANGED <<vis_pos, vis_pretty, vis_latex>>
           ELSE /\ vis_pretty' = Append(vis_pretty, <<i, shown.value[1]>>)
                /\ IF ltx.raised # "None"
                   THEN /\ vis_out' = ltx
                        /\ vis_pc' = "done"
                        /\ UNCHANGED <<vis_pos, vis_latex>>
                   ELSE /\ vis_latex' = Append(vis_latex, <<i, ltx.value[1]>>)
                        /\ vis_pos' = vis_pos + 1
                        /\ UNCHANGED <<vis_pc, vis_out>>
    /\ UNCHANGED <<vis_parses, vis_value, vis_indices, notVis>>

\* The loop is over: the command ends.
VisualiseEnd ==
    /\ vis_pc = "loop"
    /\ vis_pos = Len(vis_indices)
    /\ vis_out' = Returned(<<>>)
    /\ vis_pc' = "done"
    /\ UNCHANGED <<vis_parses, vis_value, vis_indices, vis_pos, vis_pretty,
                   vis_latex, notVis>>

NextVis == ConvertIndices \/ VisualiseSentence \/ VisualiseEnd

SpecVis == InitVis /\ [][NextVis]_vars

(***************************************************************************)
(* flatten_children as a state machine: one parse of the task file, with   *)
(* its empty tags wiped, is flattened.  The parses are trees of up to      *)
(* three levels over the words x, y, and, Or and the labels A, B: phrases  *)
(* of words, trees of up to MaxFlatChildren phrases and words, and such a  *)
(* tree under one more node.                                               *)
(***************************************************************************)
MaxFlatChildren == 3

FlatLabels == {<<"A">>, <<"B">>}

PlainWords == {Leaf(<<"x">>), Leaf(<<"y">>)}

FlatWords == PlainWords \cup {Leaf(<<"a", "n", "d">>), Leaf(<<"O", "r">>)}

Phrases ==
    {Tree(l, s) : l \in FlatLabels, s \in [1..1 -> PlainWords] \cup [1..2 -> PlainWords]}

\* A tree t as it is, under one more node, or under one more node beside a
\* word.
FlatTree(shape, top, t) ==
    IF shape = "bare" THEN t
    ELSE IF shape = "under" THEN Tree(top, <<t>>)
    ELSE Tree(top, <<t, Leaf(<<"x">>)>>)

InitFlatten ==
    /\ \E shape \in {"bare", "under", "beside"}, top \in FlatLabels, l \in FlatLabels,
          k \in 1..MaxFlatChildren :
          \E s \in [1..k -> Phrases \cup FlatWords] :
              flat_tree = FlatTree(shape, top, Tree(l, s))
    /\ flat_pc = "loaded"
    /\ flat_out = <<>>
    /\ IdleScore
    /\ IdleLabel
    /\ IdleDep
    /\ IdleTree
    /\ IdleCross
    /\ IdleHeads
    /\ IdleParser
    /\ IdleConst
    /\ IdleRevisions
    /\ IdleCli
    /\ IdleVis

\* flatten_children(t) for a parse t of the file
CallFlattenChildren ==
    /\ flat_pc = "loaded"
    /\ flat_out' = flatten_children(flat_tree)
    /\ flat_pc' = "done"
    /\ UNCHANGED <<flat_tree, notFlatten>>

NextFlatten == CallFlattenChildren

SpecFlatten == InitFlatten /\ [][NextFlatten]_vars

(***************************************************************************)
(* The whole engine: one component runs, on inputs of its own.             *)
(***************************************************************************)
Init == InitScore \/ InitLabel \/ InitDep \/ InitTree \/ InitCross \/ InitHeads \/ InitParser \/ InitConst \/ InitRevisions \/ InitCli \/ InitVis \/ InitFlatten

Next == NextScore \/ NextLabel \/ NextDep \/ NextTree \/ NextCross \/ NextHeads \/ NextParser \/ NextConst \/ NextRevisions \/ NextCli \/ NextVis \/ NextFlatten

Spec == Init /\ [][Next]_vars

(***************************************************************************)
(* Properties of the set-comparison scorer (SpecScore).                    *)
(***************************************************************************)
One == [num |-> 1, den |-> 1]

Correct == Cardinality(pred_set \cap gold_set)

\* x is the quotient n/d, stated by cross-multiplication.
IsQuotient(x, n, d) == x.den > 0 /\ x.num * d = n * x.den

\* C2: for all finite sets pred and gold, EvalScore.from_sets returns (never
\* raises) the triple (p, r, f) with p = correct/|pred| (0.0 for empty pred),
\* r = correct/|gold| (0.0 for empty gold), f = 2pr/(p+r) (0.0 when p+r = 0);
\* from_sets({}, {}) = (0, 0, 0) and from_sets(S, S) = (1, 1, 1) for S # {}.
C2_EvalScoreFormula ==
    score_pc = "EvalScore" =>
        /\ score_ret.raised = "None"
        /\ Len(score_ret.value) = 3
        /\ LET p == score_ret.value[1]
               r == score_ret.value[2]
               f == score_ret.value[3]
           IN  /\ IF pred_set = {} THEN p = Zero
                  ELSE IsQuotient(p, Correct, Cardinality(pred_set))
               /\ IF gold_set = {} THEN r = Zero
                  ELSE IsQuotient(r, Correct, Cardinality(gold_set))
               /\ IF p.num = 0 /\ r.num = 0 THEN f = Zero
                  ELSE IsQuotient(f, 2 * p.num * r.num,
                                  p.num * r.den + r.num * p.den)
               /\ (pred_set = {} /\ gold_set = {}) => score_ret.value = <<Zero, Zero, Zero>>
               /\ (pred_set = gold_set /\ pred_set # {}) => score_ret.value = <<One, One, One>>

\* C2 witness: the degenerate case p + r = 0 over two non-empty disjoint sets.
C2_Witness ==
    /\ score_pc = "EvalScore"
    /\ pred_set # {}
    /\ gold_set # {}
    /\ pred_set \cap gold_set = {}
    /\ score_ret = Returned(<<Zero, Zero, Zero>>)

\* C3: for every pair of sets of equal size, the two empty sets included,
\* Accuracy.from_sets returns a = |pred /\ gold| / |pred| with 0 <= a <= 1,
\* and a = 1 exactly when pred = gold.
C3_AccuracyOnEqualSizes ==
    (score_pc = "Accuracy" /\ Cardinality(pred_set) = Cardinality(gold_set)) =>
        /\ score_ret.raised = "None"
        /\ LET a == score_ret.value[1]
           IN  /\ IsQuotient(a, Correct, Cardinality(pred_set))
               /\ 0 <= a.num
               /\ a.num <= a.den
               /\ (a = One) <=> (pred_set = gold_set)


(***************************************************************************)
(* Properties of the label filter (SpecLabel).                             *)
(***************************************************************************)
\* Two characters that differ at most in letter case.
SameLetter(a, b) == a = b \/ {a, b} = {"n", "N"}

EqualIgnoringCase(s, t) ==
    Len(s) = Len(t) /\ \A i \in 1..Len(s) : SameLetter(s[i], t[i])

\* s is, up to letter case, the part of t before its first ':' (all of t
\* when t has none).
IsMainPartOf(s, t) ==
    \E k \in 0..Len(t) :
        /\ k = Len(t) \/ t[k + 1] = ":"
        /\ \A i \in 1..k : t[i] # ":"
        /\ Len(s) = k
        /\ \A i \in 1..k : SameLetter(s[i], t[i])

\* C5: the predicate compares case-insensitively and is true exactly when the
\* filter holds ':' and equals the whole candidate, or holds no ':' and
\* equals the candidate's part before its first ':'; so "n" accepts "n" and
\* "n:o" and rejects "o", and "o:n" accepts "o:n" and rejects "o:o" and "o".
C5_FilterPredicate ==
    label_pc = "done" =>
        /\ label_ret = (IF \E i \in 1..Len(filter_label) : filter_label[i] = ":"
                        THEN EqualIgnoringCase(filter_label, deprel)
                        ELSE IsMainPartOf(filter_label, deprel))
        /\ (filter_label = <<"n">> /\ deprel \in {<<"n">>, <<"n", ":", "o">>}) => label_ret
        /\ (filter_label = <<"n">> /\ deprel = <<"o">>) => ~label_ret
        /\ (filter_label = <<"o", ":", "n">> /\ deprel = <<"o", ":", "n">>) => label_ret
        /\ (filter_label = <<"o", ":", "n">> /\ deprel \in {<<"o", ":", "o">>, <<"o">>})
               => ~label_ret

\* C5 witness: a coarse filter accepting a subtyped label written in capitals.
C5_Witness ==
    /\ label_pc = "done"
    /\ filter_label = <<"n">>
    /\ deprel = <<"N", ":", "o">>
    /\ label_ret

(***************************************************************************)
(* Properties of eval_dep_rel (SpecDep).                                   *)
(***************************************************************************)
Unfiltered == dep_pc = "done" /\ ~Truthy(dep_filter)

Filtered == dep_pc = "done" /\ Truthy(dep_filter)

\* Sets of different sizes make Accuracy.from_sets, and the call, raise.
MismatchRaises(p, g) ==
    Cardinality(p) # Cardinality(g) =>
        /\ Accuracy_from_sets(p, g) = Raised(SizeMismatchError)
        /\ dep_ret = Raised(SizeMismatchError)

\* C4: Accuracy.from_sets raises the size-mismatch error whenever the sizes
\* differ, and so unfiltered eval_dep_rel returns no score record when one of
\* its three predicted/gold pairs differs in cardinality.
C4_SizeMismatchRaises ==
    Unfiltered =>
        /\ MismatchRaises(pred_labelled_heads, gold_labelled_heads)
        /\ MismatchRaises(pred_unlabelled_heads, gold_unlabelled_heads)
        /\ MismatchRaises(pred_labels, gold_labels)

\* C4 witness: the labelled arcs agree in number, the unlabelled arcs do not,
\* and the call raised.
C4_Witness ==
    /\ Unfiltered
    /\ Cardinality(pred_labelled_heads) = Cardinality(gold_labelled_heads)
    /\ Cardinality(pred_unlabelled_heads) # Cardinality(gold_unlabelled_heads)
    /\ dep_ret = Raised(SizeMismatchError)

\* C8: with a filter, eval_dep_rel raises the empty-filter error exactly when
\* the filtered labelled arcs are empty on both sides; otherwise it returns
\* a SpecificDepRelScore of the two EvalScores (filtered arcs, filtered
\* labels), never an accuracy record.
C8_FilteredOutcome ==
    Filtered =>
        /\ (dep_ret.raised # "None") <=>
               (pred_labelled_heads = {} /\ gold_labelled_heads = {})
        /\ dep_ret.raised # "None" => dep_ret = Raised(EmptyFilterResultError)
        /\ dep_ret.raised = "None" =>
               dep_ret.value =
                   <<"SpecificDepRelScore", dep_filter.s,
                     EvalScore_from_sets(pred_labelled_heads, gold_labelled_heads).value,
                     EvalScore_from_sets(pred_labels, gold_labels).value>>

\* C8 witness: the filter matches on the gold side only and a record returns.
C8_Witness ==
    /\ Filtered
    /\ pred_labelled_heads = {}
    /\ gold_labelled_heads # {}
    /\ dep_ret.raised = "None"
    /\ dep_ret.value[1] = "SpecificDepRelScore"

Keys(atoms) == {<<a[1], a[2]>> : a \in atoms}

DropHead(arcs) == {<<a[1], a[2], a[3]>> : a \in arcs}

\* C9: under a non-empty filter the filtered labelled arcs and the filtered
\* labels cover the same (sent_id, word_id) keys, and the arcs without their
\* heads are exactly the filtered labels.
C9_SameTokenPopulation ==
    Filtered =>
        /\ Keys(pred_labelled_heads) = Keys(pred_labels)
        /\ Keys(gold_labelled_heads) = Keys(gold_labels)
        /\ DropHead(pred_labelled_heads) = pred_labels
        /\ DropHead(gold_labelled_heads) = gold_labels

\* C9 witness: the filter keeps some rows of the predicted table and drops
\* others.
C9_Witness ==
    /\ Filtered
    /\ pred_labels # {}
    /\ Cardinality(pred_labels) < Cardinality(df_to_labels(dep_result))


(***************************************************************************)
(* Properties of extract_constituents (SpecTree).                          *)
(***************************************************************************)
Extracted == tree_pc = "done"

RECURSIVE LeafRangeSpans(_, _, _)
RECURSIVE LeafRangeSpansOfChildren(_, _, _)
\* The children's spans by leaf position: every child, word or subtree,
\* moves the position on by the leaves it covers.
LeafRangeSpansOfChildren(children, position, lab) ==
    IF children = <<>> THEN {}
    ELSE IF Head(children).isLeaf
         THEN LeafRangeSpansOfChildren(Tail(children), position + 1, lab)
         ELSE LeafRangeSpans(Head(children), position, lab)
              \cup LeafRangeSpansOfChildren(Tail(children),
                                            position + Len(leaves(Head(children))), lab)

\* For every internal node (height > 1) the half-open range of the positions
\* of its leaves in the sentence, position being that of its first leaf.
LeafRangeSpans(tree, position, lab) ==
    (IF height(tree) > 1
     THEN {IF lab THEN <<position, position + Len(leaves(tree)), tree.label>>
           ELSE <<position, position + Len(leaves(tree))>>}
     ELSE {})
    \cup LeafRangeSpansOfChildren(tree.kids, position, lab)

\* C1: for every tree, also one whose node has both word children and
\* subtree children, each span extract_constituents returns for an internal
\* node is the half-open range of that node's leaf positions.
C1_SpansAreLeafRanges ==
    Extracted => constituents = LeafRangeSpans(stack[1], 0, tree_labelled)

RECURSIVE InternalNodes(_)
RECURSIVE InternalNodesOfChildren(_)
InternalNodesOfChildren(children) ==
    IF children = <<>> THEN <<>>
    ELSE (IF Head(children).isLeaf THEN <<>> ELSE InternalNodes(Head(children)))
         \o InternalNodesOfChildren(Tail(children))

\* The internal nodes (trees of height > 1) of a tree, one entry per node.
InternalNodes(tree) ==
    (IF height(tree) > 1 THEN <<tree>> ELSE <<>>) \o InternalNodesOfChildren(tree.kids)

\* The number of leaves a node covers and, in the labelled form, its label.
Shape(tree, lab) ==
    IF lab THEN <<Len(leaves(tree)), tree.label>> ELSE <<Len(leaves(tree))>>

\* The length of a span and, in the labelled form, its label.
ShapeOfSpan(span, lab) ==
    IF lab THEN <<span[2] - span[1], span[3]>> ELSE <<span[2] - span[1]>>

\* C10 as stated: the set holds as many spans as the tree has internal nodes,
\* in the labelled and in the unlabelled form, unary chains included.
C10_OneSpanPerInternalNode ==
    Extracted => Cardinality(constituents) = Len(InternalNodes(stack[1]))

\* C10 amended: every internal node has a span in the set and a leaf has
\* none (the spans' lengths and labels are those of the internal nodes); the
\* set being a set, nodes yielding the same tuple share one element, so its
\* size is at most the number of internal nodes.
C10_SpansOfInternalNodes ==
    Extracted =>
        LET nodes == InternalNodes(stack[1])
        IN  /\ {ShapeOfSpan(span, tree_labelled) : span \in constituents}
                   = {Shape(nodes[i], tree_labelled) : i \in 1..Len(nodes)}
            /\ Cardinality(constituents) <= Len(nodes)
            /\ (constituents = {}) <=> (nodes = <<>>)

\* C10 witness: a unary chain, two internal nodes sharing one unlabelled span.
C10_Witness ==
    /\ Extracted
    /\ ~tree_labelled
    /\ Len(InternalNodes(stack[1])) = 2
    /\ Cardinality(constituents) = 1

(***************************************************************************)
(* Properties of cross_count (SpecCross).                                  *)
(***************************************************************************)
Counted == cross_pc = "done"

\* u overlaps g without either containing the other.
Crosses(u, g) ==
    \/ u[1] < g[1] /\ g[1] < u[2] /\ u[2] < g[2]
    \/ g[1] < u[1] /\ u[1] < g[2] /\ g[2] < u[2]

\* The predicted spans that are no gold span and cross at least one.
CrossingSpans(gold, pred) ==
    {u \in pred \ gold : \E g \in gold : Crosses(u, g)}

\* C6: cross_count is the number of predicted spans that are not in gold and
\* cross at least one gold span, each counted once however many it crosses
\* and whatever the iteration order; (1,3) against (0,2) and (2,4) gives 1.
C6_CrossCountFormula ==
    Counted =>
        /\ crosses = Cardinality(CrossingSpans(gold_spans, pred_spans))
        /\ crosses_unlabelled =
               Cardinality(CrossingSpans(Unlabelled(gold_spans), Unlabelled(pred_spans)))
        /\ (Unlabelled(pred_spans) = {<<1, 3>>}
               /\ Unlabelled(gold_spans) = {<<0, 2>>, <<2, 4>>})
               => crosses_unlabelled = 1

\* C6 witness: one predicted span crossing two gold spans, counted once.
C6_Witness ==
    /\ Counted
    /\ pred_spans = {<<1, 3, "A">>}
    /\ gold_spans = {<<0, 2, "A">>, <<2, 4, "B">>}
    /\ crosses = 1

\* C7 as stated: the count over labelled spans equals the count over their
\* unlabelled forms, also when spans share (start, end) under different
\* labels.
C7_LabelledEqualsUnlabelled ==
    Counted => crosses = crosses_unlabelled

\* No two predicted spans share their (start, end), and no predicted span
\* missing from gold shares its (start, end) with a gold span.
DistinctBounds ==
    /\ \A u, v \in pred_spans : (u[1] = v[1] /\ u[2] = v[2]) => u = v
    /\ \A u \in pred_spans \ gold_spans : <<u[1], u[2]>> \notin Unlabelled(gold_spans)

\* C7 amended: the labelled count is never below the unlabelled one, and
\* the two are equal when the predicted spans have distinct (start, end)
\* and none of those missing from gold shares its (start, end) with a gold
\* span.
C7_LabelledAtLeastUnlabelled ==
    Counted =>
        /\ crosses >= crosses_unlabelled
        /\ DistinctBounds => crosses = crosses_unlabelled

\* C7 witness: a unary chain in gold (one (start, end), two labels) crossed by
\* a predicted span; the two counts agree.
C7_Witness ==
    /\ Counted
    /\ DistinctBounds
    /\ gold_spans = {<<1, 3, "A">>, <<1, 3, "B">>}
    /\ pred_spans = {<<0, 2, "A">>}
    /\ crosses = 1
    /\ crosses_unlabelled = 1


(***************************************************************************)
(* Further properties of extract_constituents (SpecTree).                  *)
(***************************************************************************)
\* Every internal node (height > 1) of the tree covers at least one leaf.
InternalNodesCoverLeaves(tree) ==
    LET nodes == InternalNodes(tree)
    IN  \A i \in 1..Len(nodes) : Len(leaves(nodes[i])) >= 1

\* C11: for a tree with n leaves whose internal nodes all cover a leaf, every
\* span of extract_constituents(tree, 0) has 0 <= start < end <= n; no span
\* has start = end.
C11_SpansWithinSentence ==
    (Extracted /\ InternalNodesCoverLeaves(stack[1])) =>
        \A span \in constituents :
            /\ 0 <= span[1]
            /\ span[1] < span[2]
            /\ span[2] <= Len(leaves(stack[1]))

\* C11 witness: a tree of three leaves whose last child is a subtree after a
\* word; its spans lie within 0..3.
C11_Witness ==
    /\ Extracted
    /\ InternalNodesCoverLeaves(stack[1])
    /\ Len(leaves(stack[1])) = 3
    /\ Len(stack[1].kids) = 2
    /\ stack[1].kids[1].isLeaf
    /\ ~stack[1].kids[2].isLeaf
    /\ Cardinality(constituents) = 2

(***************************************************************************)
(* Further properties of cross_count (SpecCross).                          *)
(***************************************************************************)
\* C14: for every span set S, cross_count(S, S) = 0.
C14_NoCrossOnEqualSets ==
    (Counted /\ pred_spans = gold_spans) =>
        /\ crosses = 0
        /\ crosses_unlabelled = 0

\* C14 witness: the set is compared with itself and two of its spans cross
\* each other.
C14_Witness ==
    /\ Counted
    /\ pred_spans = gold_spans
    /\ \E u, g \in gold_spans : Crosses(u, g)
    /\ crosses = 0

\* u only touches g at a boundary, lies apart from it, or one contains the
\* other (shared end points included).
Harmless(u, g) ==
    \/ u[2] <= g[1]
    \/ g[2] <= u[1]
    \/ (g[1] <= u[1] /\ u[2] <= g[2])
    \/ (u[1] <= g[1] /\ g[2] <= u[2])

\* C15: a predicted span that is harmless to every gold span contributes 0:
\* the count is at most the number of predicted spans that are not, and 0
\* when there is none.
C15_TouchingAndNestedNotCounted ==
    Counted =>
        LET harmful == {u \in pred_spans : \E g \in gold_spans : ~Harmless(u, g)}
        IN  /\ crosses <= Cardinality(harmful)
            /\ crosses_unlabelled <= Cardinality(Unlabelled(harmful))
            /\ harmful = {} => crosses = 0

\* C15 witness: the predicted span touches one gold span at its end, and
\* shares its start with a gold span that contains it.
C15_Witness ==
    /\ Counted
    /\ pred_spans = {<<0, 2, "A">>}
    /\ gold_spans = {<<2, 4, "A">>, <<0, 3, "B">>}
    /\ crosses = 0


(***************************************************************************)
(* Properties of extract_all_constituents (SpecTree).                      *)
(***************************************************************************)
ExtractedAll == tree_pc = "done_all"

RECURSIVE SumOfSizes(_)
SumOfSizes(sets) ==
    IF sets = <<>> THEN 0
    ELSE Cardinality(Head(sets)) + SumOfSizes(Tail(sets))

\* C12: extract_all_constituents(trees) returns (global, per_sentence) where
\* per_sentence[i] is extract_constituents(trees[i]) for the i-th sentence
\* counted from 1, global is the union over i of the spans of sentence i
\* prefixed with i, and the size of global is the sum of the sizes of the
\* per-sentence sets.
C12_GlobalIsUnionOfSentences ==
    ExtractedAll =>
        /\ Len(all_consts) = Len(stack)
        /\ \A i \in 1..Len(stack) :
              all_consts[i] = extract_constituents(stack[i], 0, tree_labelled)
        /\ big_set = UNION {{<<i>> \o span : span \in all_consts[i]} :
                               i \in 1..Len(stack)}
        /\ Cardinality(big_set) = SumOfSizes(all_consts)

\* C12 witness: two sentences with the same non-empty span set, told apart in
\* the global set by their sentence numbers only.
C12_Witness ==
    /\ ExtractedAll
    /\ Len(stack) = 2
    /\ all_consts[1] # {}
    /\ all_consts[1] = all_consts[2]
    /\ Cardinality(big_set) = 2 * Cardinality(all_consts[1])


(***************************************************************************)
(* Properties of df_to_heads (SpecHeads).                                  *)
(***************************************************************************)
\* The label d passes the filter f: equal up to letter case when f holds a
\* ':', else f equals, up to letter case, the part of d before its first ':'.
PassesFilter(f, d) ==
    IF \E i \in 1..Len(f) : f[i] = ":" THEN EqualIgnoringCase(f, d)
    ELSE IsMainPartOf(f, d)

\* C16: df_to_heads called with labelled = false and a filter label raises
\* the configuration error before any row of the table is read and returns
\* no set; called with labelled = true and a filter label it returns exactly
\* the arcs (sentence id, word id, lower-cased label, head id) of the rows
\* whose label passes the filter.
C16_HeadsFilterNeedsLabels ==
    (heads_pc = "done" /\ Truthy(heads_filter)) =>
        IF ~heads_labelled
        THEN /\ heads_ret = Raised(ConfigurationError)
             /\ rows_read = 0
        ELSE /\ heads_ret.raised = "None"
             /\ heads_ret.value[1] =
                    {<<row.sent_id, row.word_id, lower(row.deprel), row.head>> :
                        row \in {r \in heads_df :
                                    PassesFilter(heads_filter.s, r.deprel)}}

\* C16 witness: an unlabelled call with a filter on a table that holds rows
\* raises without reading them.
C16_Witness ==
    /\ heads_pc = "done"
    /\ ~heads_labelled
    /\ heads_filter = Str(<<"n">>)
    /\ Cardinality(heads_df) = 2
    /\ heads_ret.raised = ConfigurationError
    /\ heads_ret.value = <<>>
    /\ rows_read = 0


(***************************************************************************)
(* Properties of DependencyParser (SpecParser).                            *)
(***************************************************************************)
\* The tagging mode of the parser matches the type of its input.
InputMatches ==
    \/ parser_pretagged /\ parser_input = "Document"
    \/ ~parser_pretagged /\ parser_input = "str"

\* C17: a parser whose tagging mode does not match its input (pretagged and
\* given a str, or untagged and given a Document) raises the configuration
\* error with the pipeline not invoked and no table made; with a matching
\* input it raises no configuration error and the pipeline is invoked.
C17_InputMustMatchTaggingMode ==
    parser_pc = "done" =>
        IF InputMatches
        THEN /\ parser_ret.raised = "None"
             /\ pipe_calls = 1
        ELSE /\ parser_ret.raised \in {PretaggedStringError, UntaggedDocumentError}
             /\ parser_ret.value = <<>>
             /\ pipe_calls = 0
             /\ converter_calls = 0

\* C17 witness: an untagged parser called on a Document has raised without
\* invoking its pipeline.
C17_Witness ==
    /\ parser_pc = "done"
    /\ ~parser_pretagged
    /\ parser_input = "Document"
    /\ parser_ret = Raised(UntaggedDocumentError)
    /\ pipe_calls = 0


(***************************************************************************)
(* Properties of eval_const (SpecConst).                                   *)
(***************************************************************************)
ConstDone == const_pc = "done"

\* The labelled spans of the i-th sentence of a corpus.
SpansOfSentence(trees, i) == extract_constituents(trees[i], 0, TRUE)

\* The predicted spans of sentence i that its gold parse lacks and that cross
\* one of the gold spans of sentence i.
CrossingSpansOfSentence(i) ==
    {u \in SpansOfSentence(const_result, i) \ SpansOfSentence(const_gold, i) :
        \E g \in SpansOfSentence(const_gold, i) : Crosses(u, g)}

RECURSIVE SumOfCrossingSpans(_)
SumOfCrossingSpans(n) ==
    IF n = 0 THEN 0
    ELSE SumOfCrossingSpans(n - 1) + Cardinality(CrossingSpansOfSentence(n))

\* C13: for a gold and a predicted corpus with the same number n of
\* sentences, the cross_brackets of eval_const is the sum over i in 1..n of
\* the crossing count of the gold spans of sentence i against the predicted
\* spans of sentence i, and of no other pair of sentences.
C13_CrossBracketsSumPerSentence ==
    (ConstDone /\ Len(const_gold) = Len(const_result)) =>
        /\ cc = SumOfCrossingSpans(Len(const_gold))
        /\ const_ret.raised = "None"
        /\ const_ret.value[5] = <<cc>>

\* C13 witness: two sentences on each side, no predicted parse crossing the
\* gold parse of its own sentence, the second predicted parse crossing the
\* gold parse of the first sentence: the count is 0.
C13_Witness ==
    /\ ConstDone
    /\ Len(const_gold) = 2
    /\ Len(const_result) = 2
    /\ \E u \in SpansOfSentence(const_result, 2) :
          \E g \in SpansOfSentence(const_gold, 1) : Crosses(u, g)
    /\ cc = 0
    /\ const_ret.value[5] = <<0>>


(***************************************************************************)
(* Properties of the two evaluation functions (SpecEval).                  *)
(***************************************************************************)
\* The call returned a record of n fields, each of them defined.
CompleteRecord(ret, n) ==
    /\ ret.raised = "None"
    /\ Len(ret.value) = n + 2
    /\ \A i \in 3..(n + 2) : Len(ret.value[i]) >= 1

\* The call raised and produced no record.
NoRecord(ret) ==
    /\ ret.raised \notin {"None", "NoCall"}
    /\ ret.value = <<>>

\* The unfiltered evaluation got past LAS and met sets of different sizes at
\* UAS or LS.
LaterFieldFails ==
    /\ Unfiltered
    /\ Cardinality(pred_labelled_heads) = Cardinality(gold_labelled_heads)
    /\ \/ Cardinality(pred_unlabelled_heads) # Cardinality(gold_unlabelled_heads)
       \/ Cardinality(pred_labels) # Cardinality(gold_labels)

\* C18: a call of eval_dep_rel or of eval_const ends either with a score
\* record all of whose fields are defined, or with an error and no record; an
\* error on a later field (UAS or LS after LAS) leaves no record holding the
\* earlier fields.
C18_RecordOrError ==
    /\ dep_pc = "done" =>
          /\ \/ CompleteRecord(dep_ret, IF Truthy(dep_filter) THEN 2 ELSE 3)
             \/ NoRecord(dep_ret)
          /\ LaterFieldFails => NoRecord(dep_ret)
    /\ ConstDone => CompleteRecord(const_ret, 3)

\* C18 witness: LAS and UAS are computed on sets of equal sizes and LS meets
\* label sets of different sizes; the call raised.
C18_Witness ==
    /\ LaterFieldFails
    /\ Cardinality(pred_unlabelled_heads) = Cardinality(gold_unlabelled_heads)
    /\ dep_ret = Raised(SizeMismatchError)


\* Nothing has been extracted or scored yet in eval_dep_rel.
DepNothingScored ==
    /\ pred_labelled_heads = {}
    /\ gold_labelled_heads = {}
    /\ pred_unlabelled_heads = {}
    /\ gold_unlabelled_heads = {}
    /\ pred_labels = {}
    /\ gold_labels = {}
    /\ dep_ret = NoCall

\* Nothing has been extracted or scored yet in eval_const.
ConstNothingScored ==
    /\ pred_labelled = {}
    /\ pred_constituents = <<>>
    /\ pred_unlabelled = {}
    /\ gold_labelled = {}
    /\ gold_constituents = <<>>
    /\ gold_unlabelled = {}
    /\ const_ret = NoCall

\* C19: in eval_dep_rel and eval_const the predictions are persisted exactly
\* once when a save target is given and never when it is None; they are
\* persisted after parsing and before any extraction or scoring, and a
\* scoring error raised afterwards leaves them persisted.
C19_PersistedOnceBeforeScoring ==
    /\ dep_pc \in {"parse", "save"} => (dumped = 0 /\ DepNothingScored)
    /\ dep_pc = "evaluate" =>
          (dumped = (IF save_predictions THEN 1 ELSE 0) /\ DepNothingScored)
    /\ dep_pc = "done" =>
          (dumped = (IF save_predictions THEN 1 ELSE 0) /\ dep_ret # NoCall)
    /\ const_pc \in {"parse", "save"} => (const_dumped = 0 /\ ConstNothingScored)
    /\ const_pc = "evaluate" =>
          (const_dumped = (IF const_save THEN 1 ELSE 0) /\ ConstNothingScored)
    /\ ConstDone =>
          (const_dumped = (IF const_save THEN 1 ELSE 0) /\ const_ret # NoCall)

\* C19 witness: a call with a save target ended with a scoring error, the
\* predictions written once.
C19_Witness ==
    /\ dep_pc = "done"
    /\ save_predictions
    /\ dep_ret.raised = SizeMismatchError
    /\ dumped = 1


\* The scoring step of either function leaves the parses and tables it reads
\* as they are.
ScoringLeavesInputs ==
    /\ dep_pc = "evaluate" =>
          (dep_gold' = dep_gold /\ dep_result' = dep_result /\ dep_filter' = dep_filter)
    /\ const_pc = "evaluate" =>
          (const_gold' = const_gold /\ const_result' = const_result)

\* After eval_dep_rel has extracted its sets, the set functions applied again
\* to the tables give the sets it holds, and from_sets applied again to these
\* sets gives the record or the error it ended with.
DepRepeatable ==
    (dep_pc = "done" /\ (pred_labels # {} \/ gold_labels # {})) =>
        /\ Returned(<<pred_labelled_heads>>) = df_to_heads(dep_result, TRUE, dep_filter)
        /\ Returned(<<gold_labelled_heads>>) = df_to_heads(dep_gold, TRUE, dep_filter)
        /\ Returned(<<pred_unlabelled_heads>>) = df_to_heads(dep_result, FALSE, None)
        /\ Returned(<<gold_unlabelled_heads>>) = df_to_heads(dep_gold, FALSE, None)
        /\ pred_labels = (IF Truthy(dep_filter)
                          THEN df_get_label(dep_result, dep_filter.s)
                          ELSE df_to_labels(dep_result))
        /\ dep_ret = (IF Truthy(dep_filter)
                      THEN FilteredScore(dep_filter.s, pred_labelled_heads,
                                         gold_labelled_heads, pred_labels, gold_labels)
                      ELSE UnfilteredScore(pred_labelled_heads, gold_labelled_heads,
                                           pred_unlabelled_heads, gold_unlabelled_heads,
                                           pred_labels, gold_labels))

\* After eval_const, extraction applied again to the parses gives the sets it
\* holds, and cross_count applied again to the per-sentence sets can give no
\* other count than the one obtained, in whatever order the sets are
\* iterated.
ConstRepeatable ==
    ConstDone =>
        /\ <<pred_labelled, pred_constituents>> = extract_all_constituents(const_result, TRUE)
        /\ <<gold_labelled, gold_constituents>> = extract_all_constituents(const_gold, TRUE)
        /\ pred_unlabelled = extract_all_constituents(const_result, FALSE)[1]
        /\ gold_unlabelled = extract_all_constituents(const_gold, FALSE)[1]
        /\ \A i \in 1..Len(const_result) :
              pred_constituents[i] = extract_constituents(const_result[i], 0, TRUE)
        /\ ZipCrossCounts(gold_constituents, pred_constituents) = {cc}
        /\ const_ret = ConstituencyScore(pred_labelled, gold_labelled,
                                         pred_unlabelled, gold_unlabelled, cc)

\* C20: scoring is read-only and deterministic: extract_constituents,
\* extract_all_constituents, cross_count, df_to_heads, df_to_labels,
\* df_get_label and both from_sets leave the trees, tables and sets they are
\* given unchanged, and applied again to the same inputs they give an equal
\* result.
C20_ScoringReadOnlyAndRepeatable ==
    /\ [](DepRepeatable /\ ConstRepeatable)
    /\ [][ScoringLeavesInputs]_vars

\* C20 witness: one sentence whose predicted parse has a span crossing one
\* of three gold spans; every order of scanning the gold spans counts it
\* once.
C20_Witness ==
    /\ ConstDone
    /\ Len(const_gold) = 1
    /\ Len(const_result) = 1
    /\ Cardinality(gold_constituents[1]) = 3
    /\ Cardinality(CrossingSpansOfSentence(1)) = 1
    /\ cc = 1


(***************************************************************************)
(* Properties of eval_dep_rel without a filter (SpecDepCase).              *)
(***************************************************************************)
\* The table holds exactly one row for each (sent_id, word_id) it mentions.
OneRowPerToken(df) ==
    \A r1, r2 \in df :
        (r1.sent_id = r2.sent_id /\ r1.word_id = r2.word_id) => r1 = r2

\* Every row of df1 is a row of df2 up to the letter case of its label.
CoveredUpToCase(df1, df2) ==
    \A r1 \in df1 : \E r2 \in df2 :
        /\ r1.sent_id = r2.sent_id
        /\ r1.word_id = r2.word_id
        /\ r1.head = r2.head
        /\ EqualIgnoringCase(r1.deprel, r2.deprel)

EqualUpToCase(df1, df2) == CoveredUpToCase(df1, df2) /\ CoveredUpToCase(df2, df1)

PerfectScore ==
    Returned(<<"DependencyRelationScore", <<>>, <<One>>, <<One>>, <<One>>>>)

\* C21: without a label filter eval_dep_rel builds the labelled arc (sentence
\* id, word id, lower-cased label, head id), the unlabelled arc (sentence id,
\* word id, head id) and the label atom (sentence id, word id, lower-cased
\* label) of every row, one of each per row when the table has one row per
\* token, and returns three accuracies; for a non-empty gold table with one
\* row per token, a prediction equal to it up to the letter case of the
\* labels scores LAS = UAS = LS = 1.0.
C21_UnfilteredScoresPerRow ==
    Unfiltered =>
        /\ \A row \in dep_result :
              /\ <<row.sent_id, row.word_id, lower(row.deprel), row.head>>
                     \in pred_labelled_heads
              /\ <<row.sent_id, row.word_id, row.head>> \in pred_unlabelled_heads
              /\ <<row.sent_id, row.word_id, lower(row.deprel)>> \in pred_labels
        /\ OneRowPerToken(dep_result) =>
              /\ Cardinality(pred_labelled_heads) = Cardinality(dep_result)
              /\ Cardinality(pred_unlabelled_heads) = Cardinality(dep_result)
              /\ Cardinality(pred_labels) = Cardinality(dep_result)
        /\ dep_ret.raised = "None" =>
              (Len(dep_ret.value) = 5 /\ dep_ret.value[1] = "DependencyRelationScore")
        /\ (OneRowPerToken(dep_gold) /\ EqualUpToCase(dep_result, dep_gold)) =>
              dep_ret = PerfectScore

\* C21 witness: two tokens, the prediction writing one label in capitals
\* where gold has it in small letters; all three scores are 1.0.
C21_Witness ==
    /\ Unfiltered
    /\ Cardinality(dep_gold) = 2
    /\ OneRowPerToken(dep_gold)
    /\ EqualUpToCase(dep_result, dep_gold)
    /\ dep_result # dep_gold
    /\ dep_ret = PerfectScore


(***************************************************************************)
(* Properties of the two revisions of EvalScore.from_sets (SpecRevisions). *)
(***************************************************************************)
\* C22: the earlier revision of EvalScore.from_sets agrees with the current
\* one on every pair of sets: the same precision, recall and F1, and no
\* error where the current revision returns.
C22_RevisionsAgree ==
    rev_pc = "done" => rev_old = rev_new


(***************************************************************************)
(* Further properties of eval_const (SpecConst).                           *)
(***************************************************************************)
Min(a, b) == IF a <= b THEN a ELSE b

\* The spans of every sentence of a corpus, each with its sentence number.
AllSpans(trees, with_labels) ==
    UNION {{<<i>> \o span : span \in extract_constituents(trees[i], 0, with_labels)} :
              i \in 1..Len(trees)}

\* The triple is precision, recall and F1 of the set pred against the set
\* gold.
IsScoreOf(triple, pred, gold) ==
    LET correct == Cardinality(pred \cap gold)
    IN  /\ Len(triple) = 3
        /\ IF pred = {} THEN triple[1] = Zero
           ELSE IsQuotient(triple[1], correct, Cardinality(pred))
        /\ IF gold = {} THEN triple[2] = Zero
           ELSE IsQuotient(triple[2], correct, Cardinality(gold))

\* C23: when the predicted and the gold corpus have different numbers of
\* sentences, eval_const raises no error; its cross_brackets covers the first
\* min(n, m) sentence pairs only, and its labelled and unlabelled precision
\* and recall are computed over the spans of all sentences of both corpora.
C23_UnequalCorporaTruncateCrossesOnly ==
    (ConstDone /\ Len(const_gold) # Len(const_result)) =>
        /\ const_ret.raised = "None"
        /\ cc = SumOfCrossingSpans(Min(Len(const_gold), Len(const_result)))
        /\ const_ret.value[5] = <<cc>>
        /\ IsScoreOf(const_ret.value[3], AllSpans(const_result, TRUE),
                     AllSpans(const_gold, TRUE))
        /\ IsScoreOf(const_ret.value[4], AllSpans(const_result, FALSE),
                     AllSpans(const_gold, FALSE))

\* C23 witness: one gold sentence, two predicted ones, the second of which
\* crosses the gold parse and is counted in the precision but not in the
\* cross brackets.
C23_Witness ==
    /\ ConstDone
    /\ Len(const_gold) = 1
    /\ Len(const_result) = 2
    /\ \E u \in SpansOfSentence(const_result, 2) :
          \E g \in SpansOfSentence(const_gold, 1) : Crosses(u, g)
    /\ cc = 0
    /\ Cardinality(pred_labelled) > Cardinality(SpansOfSentence(const_result, 1))
    /\ const_ret.value[3][1].den = Cardinality(pred_labelled)


\* x >= y for two fractions.
FGeq(x, y) == x.num * y.den >= y.num * x.den

LabelledPrecision == const_ret.value[3][1]

LabelledRecall == const_ret.value[3][2]

UnlabelledPrecision == const_ret.value[4][1]

UnlabelledRecall == const_ret.value[4][2]

\* C25, as claimed: in every ConstituencyScore returned by eval_const the
\* unlabelled precision is at least the labelled precision and the unlabelled
\* recall at least the labelled recall, unary chains included.
C25_UnlabelledNeverLower ==
    ConstDone =>
        /\ FGeq(UnlabelledPrecision, LabelledPrecision)
        /\ FGeq(UnlabelledRecall, LabelledRecall)

\* C25, amended: the unlabelled precision is at least the labelled precision
\* when no two predicted nodes of a sentence share a span (the unlabelled
\* predicted set is as large as the labelled one), and the unlabelled recall
\* is at least the labelled recall when no two gold nodes of a sentence share
\* a span.
C25_UnlabelledNotLowerWithoutSharedSpans ==
    ConstDone =>
        /\ Cardinality(pred_unlabelled) = Cardinality(pred_labelled) =>
              FGeq(UnlabelledPrecision, LabelledPrecision)
        /\ Cardinality(gold_unlabelled) = Cardinality(gold_labelled) =>
              FGeq(UnlabelledRecall, LabelledRecall)

\* C25 witness: no shared spans on either side, a predicted span that gold
\* has under another label: the labelled scores are 0, the unlabelled ones
\* are not.
C25_Witness ==
    /\ ConstDone
    /\ pred_labelled # {}
    /\ Cardinality(pred_unlabelled) = Cardinality(pred_labelled)
    /\ Cardinality(gold_unlabelled) = Cardinality(gold_labelled)
    /\ LabelledPrecision = Zero
    /\ LabelledRecall = Zero
    /\ UnlabelledPrecision.num > 0
    /\ UnlabelledRecall.num > 0


(***************************************************************************)
(* Further properties of eval_dep_rel (SpecDep).                           *)
(***************************************************************************)
\* C24: when the predicted and the gold table each hold one row per
\* (sentence id, word id), the labelled attachment score of a returned record
\* does not exceed its other scores: without a filter LAS <= UAS and
\* LAS <= LS; with a filter the precision and the recall of LAS do not exceed
\* those of LS.
C24_LabelledAttachmentIsLowest ==
    (/\ dep_pc = "done"
     /\ dep_ret.raised = "None"
     /\ OneRowPerToken(dep_gold)
     /\ OneRowPerToken(dep_result)) =>
        IF Truthy(dep_filter)
        THEN /\ FGeq(dep_ret.value[4][1], dep_ret.value[3][1])
             /\ FGeq(dep_ret.value[4][2], dep_ret.value[3][2])
        ELSE /\ FGeq(dep_ret.value[4][1], dep_ret.value[3][1])
             /\ FGeq(dep_ret.value[5][1], dep_ret.value[3][1])

\* C24 witness: a filtered call on one-row-per-token tables where the
\* prediction has the label of a token right and its head wrong: LAS is 0 and
\* LS is not.
C24_Witness ==
    /\ Filtered
    /\ dep_ret.raised = "None"
    /\ OneRowPerToken(dep_gold)
    /\ OneRowPerToken(dep_result)
    /\ dep_ret.value[3][1] = Zero
    /\ dep_ret.value[4][1] = One
    /\ dep_ret.value[4][2] = One


(***************************************************************************)
(* Properties of the empty filter label (SpecDepHeads).                    *)
(***************************************************************************)
AllLabelledArcs(df) ==
    {<<row.sent_id, row.word_id, lower(row.deprel), row.head>> : row \in df}

AllUnlabelledArcs(df) == {<<row.sent_id, row.word_id, row.head>> : row \in df}

AllLabelAtoms(df) == {<<row.sent_id, row.word_id, lower(row.deprel)>> : row \in df}

\* What eval_dep_rel gives for the two tables when no rows are left out.
ScoreOverAllRows ==
    UnfilteredScore(AllLabelledArcs(dep_result), AllLabelledArcs(dep_gold),
                    AllUnlabelledArcs(dep_result), AllUnlabelledArcs(dep_gold),
                    AllLabelAtoms(dep_result), AllLabelAtoms(dep_gold))

\* C26: the empty string as filter label is no filter: eval_dep_rel called
\* with "" ends as it does with None, with the three accuracies over all rows
\* (or their size mismatch) and never with the empty-filter error, and
\* df_to_heads called with labelled = false and "" returns the unlabelled
\* arcs of all rows and raises no configuration error.
C26_EmptyFilterIsNoFilter ==
    /\ (dep_pc = "done" /\ dep_filter \in {None, Str(<<>>)}) =>
          /\ dep_ret = ScoreOverAllRows
          /\ dep_ret.raised # EmptyFilterResultError
    /\ (heads_pc = "done" /\ ~heads_labelled /\ heads_filter = Str(<<>>)) =>
          /\ heads_ret = Returned(<<AllUnlabelledArcs(heads_df)>>)
          /\ rows_read = Cardinality(heads_df)

\* C26 witness: eval_dep_rel called with "" has returned the record of three
\* accuracies.
C26_Witness ==
    /\ dep_pc = "done"
    /\ dep_filter = Str(<<>>)
    /\ dep_ret.raised = "None"
    /\ dep_ret.value[1] = "DependencyRelationScore"
    /\ Len(dep_ret.value) = 5


(***************************************************************************)
(* Laminarity of the spans of one tree (SpecTree).                         *)
(***************************************************************************)
\* C27: the spans extracted from one tree are laminar: any two of them are
\* disjoint or one contains the other, also for trees with words and
\* subtrees as children of one node, so that no span of a tree passes the
\* crossing test of cross_count against another span of the same tree.
C27_SpansOfATreeAreLaminar ==
    Extracted =>
        \A u, v \in constituents :
            /\ Harmless(u, v)
            /\ ~Crossing(u, v)

\* C27 witness: the unlabelled spans of a tree whose root has a word and then
\* a subtree of two words as children.
C27_Witness ==
    /\ Extracted
    /\ ~tree_labelled
    /\ Len(stack[1].kids) = 2
    /\ stack[1].kids[1].isLeaf
    /\ ~stack[1].kids[2].isLeaf
    /\ Len(leaves(stack[1].kids[2])) = 2
    /\ Cardinality(constituents) = 2


(***************************************************************************)
(* Properties of the evaluate dep-rel command (SpecCli).                   *)
(***************************************************************************)
\* No row of the table has a label that passes the filter.
MatchesNothing(df, f) == \A row \in df : ~PassesFilter(f, row.deprel)

IndicesInRange ==
    \A k \in 1..Len(vis_indices) :
        1 <= vis_indices[k] /\ vis_indices[k] <= Len(vis_parses)

\* C29: for requested indices i with 1 <= i <= number of parses in the file,
\* the command pretty-prints and emits the LaTeX of the same sentence i (the
\* parse at list position i - 1) and ends without an index error, also for i
\* the last sentence.
C29_SameSentencePrintedAndEmitted ==
    (vis_pc = "done" /\ IndicesInRange) =>
        /\ vis_out.raised = "None"
        /\ Len(vis_pretty) = Len(vis_indices)
        /\ Len(vis_latex) = Len(vis_indices)
        /\ \A k \in 1..Len(vis_indices) :
              /\ vis_pretty[k] = <<vis_indices[k], vis_indices[k]>>
              /\ vis_latex[k] = <<vis_indices[k], vis_indices[k]>>


(***************************************************************************)
(* Properties of flatten_children (SpecFlatten).                           *)
(***************************************************************************)
\* C30: flatten_children only regroups nodes: the left-to-right sequence of
\* the words of the tree returned is that of the tree given, also when the
\* siblings merged around 'and' / 'or' have more than one child each.
C30_FlattenKeepsWords ==
    flat_pc = "done" => leaves(flat_out) = leaves(flat_tree)

=============================================================================
